---- MODULE Spec2Model ----
(***************************************************************************)
(* A model of the QR styling and rendering engine of apps/web/lib/qr and   *)
(* of the plan-gated image endpoint /api/qr (GET).                         *)
(*                                                                         *)
(* Coordinates are 0-based as in the TypeScript source; a matrix is a      *)
(* sequence of rows, so the cell the source writes modules[y][x] is        *)
(* modules[y + 1][x + 1] here.                                             *)
(***************************************************************************)
EXTENDS Integers, Sequences, FiniteSets, TLC

VARIABLES
    \* ---- generatePath(modules, margin) ----
    modules,        \* the boolean matrix handed to generatePath
    margin,         \* the margin handed to generatePath
    path,           \* the path it returned, as the sequence of its draw operations
    pathPc,         \* "call" before the call, "done" after it
    \* ---- checkQRTypePlanAccess(qrType, workspacePlan) ----
    planArgs,       \* [qrType, workspacePlan]: the arguments
    access,         \* [allowed, requiredPlan]: the result
    planPc,         \* "call" | "done"
    \* ---- QRCodeSVG(props) ----
    props,          \* the props of the call
    svg,            \* the rendered document
    svgPc,          \* "call" | "done"
    \* ---- GET /api/qr ----
    req,            \* the request: raw query parameters and the limiter's verdict
    pc,             \* the handler's position
    params,         \* paramsParsed
    shortLink,      \* the short link found by the handler's lookup
    workspacePlan,  \* the handler's workspacePlan
    qrCodeLogo,     \* what getQRCodeLogo resolved
    calls,          \* the calls the handler has made so far, in order
    responses,      \* the responses the handler has returned, in order
    \* ---- getImageSettings(cells, size, margin, imageSettings) and the render with it ----
    imgArgs,        \* [side, size, imageSettings]: the arguments
    imgSettings,    \* what getImageSettings returned
    imgDoc,         \* the document QRCodeSVG rendered with these settings
    imgPc,          \* "call" | "placed" | "done"
    \* ---- one dark module in generateStyledModules ----
    styleArgs,      \* [x, y, size, margin, dotStyle, cornerStyle]
    styleEl,        \* the primitive drawn for the module
    stylePc,        \* "call" | "done"
    \* ---- QRCodeCube3D(props) ----
    cubeProps,      \* the props, with what getQRData and the encoder answer
    cube,           \* the rendered cube
    cubePc,         \* "call" | "done"
    \* ---- excavateModules(modules, excavation) ----
    excArgs,        \* [modules, excavation]: the arguments, as they are after the call
    excOut,         \* [once, twice]: the result, and the result of excavating it again
    excPc,          \* "call" | "done"
    \* ---- generateStyledModules(modules, margin, dotStyle, cornerStyle) ----
    gridArgs,       \* [modules, margin, dotStyle, cornerStyle]
    gridOut,        \* the list of primitives returned
    gridPc,         \* "call" | "done"
    \* ---- getQRCodeLogo({url, logo, hideLogo, workspacePlan}) ----
    logoArgs,       \* the arguments, with what the three lookups answer
    logoOut,        \* [threw, logo, calls]
    logoPc,         \* "call" | "done"
    \* ---- getRestrictedCorsHeaders(requestOrigin) ----
    corsArgs,       \* [requestOrigin, env]
    corsOut,        \* the headers returned
    corsPc          \* "call" | "done"

pathVars == <<modules, margin, path, pathPc>>
planVars == <<planArgs, access, planPc>>
svgVars  == <<props, svg, svgPc>>
getVars  == <<req, pc, params, shortLink, workspacePlan, qrCodeLogo, calls, responses>>
imgVars  == <<imgArgs, imgSettings, imgDoc, imgPc>>
styleVars == <<styleArgs, styleEl, stylePc>>
cubeVars == <<cubeProps, cube, cubePc>>
excVars  == <<excArgs, excOut, excPc>>
gridVars == <<gridArgs, gridOut, gridPc>>
logoVars == <<logoArgs, logoOut, logoPc>>
corsVars == <<corsArgs, corsOut, corsPc>>
vars     == <<pathVars, planVars, svgVars, getVars, imgVars, styleVars, cubeVars,
              excVars, gridVars, logoVars, corsVars>>

(***************************************************************************)
(* Bounds of the model.                                                    *)
(***************************************************************************)
MaxRows   == 2      \* rows of a matrix handed to generatePath
MaxCols   == 4      \* columns of a matrix handed to generatePath
MaxMargin == 2      \* requested margins are 0 .. MaxMargin
MaxSide   == 3      \* side of the matrix the encoder returns to QRCodeSVG

Min(a, b) == IF a <= b THEN a ELSE b

(***************************************************************************)
(* JavaScript values that are not strings or numbers.                      *)
(***************************************************************************)
Null      == "<null>"
Undefined == "<undefined>"

\* `let start: number | null = null`: no run in progress.
NoStart == -1

(***************************************************************************)
(* generatePath                                                            *)
(*                                                                         *)
(* A draw operation `M{mx} {my}h{h}v{v}H{hx}z` is the record               *)
(* [mx, my, h, v, hx]: move to (mx, my), line right by h, line down by v,  *)
(* horizontal line to x = hx, close.                                       *)
(***************************************************************************)
\* mutant: the operation is closed at the column that ended the run
runOp_closesAtEnd(start, x, y, m) ==
    [mx |-> start + m, my |-> y + m, h |-> x - start, v |-> 1, hx |-> x + m]

\* a run closed by a light cell at column x
runOp(start, x, y, m) ==
    [mx |-> start + m, my |-> y + m, h |-> x - start, v |-> 1, hx |-> start + m]

\* a dark cell in the last column with no run in progress
singleOp(x, y, m) ==
    [mx |-> x + m, my |-> y + m, h |-> 1, v |-> 1, hx |-> x + m]

\* a run that started earlier and reaches the last column x (mutant: the run
\* is closed as if a light cell had ended it at x)
finishOp_short(start, x, y, m) ==
    [mx |-> start + m, my |-> y + m, h |-> x - start, v |-> 1, hx |-> start + m]

finishOp(start, x, y, m) ==
    [mx |-> start + m, my |-> y + m, h |-> x + 1 - start, v |-> 1, hx |-> start + m]

\* row.forEach(function (cell, x) { ... }) from column x on, with the run
\* state `start` and the operations pushed so far
RECURSIVE scanRow(_, _, _, _, _, _)
scanRow(row, y, m, x, start, ops) ==
    IF x >= Len(row) THEN ops
    ELSE LET cell == row[x + 1] IN
         IF ~cell /\ start # NoStart
         THEN scanRow(row, y, m, x + 1, NoStart, Append(ops, runOp(start, x, y, m)))
         ELSE IF x = Len(row) - 1
         THEN IF ~cell THEN scanRow(row, y, m, x + 1, start, ops)
              ELSE IF start = NoStart
              THEN scanRow(row, y, m, x + 1, start, Append(ops, singleOp(x, y, m)))
              ELSE scanRow(row, y, m, x + 1, start, Append(ops, finishOp(start, x, y, m)))
         ELSE IF cell /\ start = NoStart
         THEN scanRow(row, y, m, x + 1, x, ops)
         ELSE scanRow(row, y, m, x + 1, start, ops)

\* modules.forEach(function (row, y) { ... }) from row y on
RECURSIVE scanRows(_, _, _, _)
scanRows(mods, m, y, ops) ==
    IF y >= Len(mods) THEN ops
    ELSE scanRows(mods, m, y + 1, scanRow(mods[y + 1], y, m, 0, NoStart, ops))

generatePath(mods, m) == scanRows(mods, m, 0, <<>>)

(***************************************************************************)
(* Rasterizing a path: the unit cell (cx, cy) is filled by an operation    *)
(* when its centre lies inside the closed polygon                          *)
(* (mx,my) (mx+h,my) (mx+h,my+v) (hx,my+v); at the centre's height the     *)
(* left edge, which runs from (hx, my+v) back to (mx, my), is crossed at   *)
(* x = (mx + hx) / 2 when v = 1.                                           *)
(***************************************************************************)
opCells(op) ==
    IF op.h <= 0 \/ op.v # 1 THEN {}
    ELSE { <<cx, op.my>> : cx \in { c \in Min(op.mx, op.hx) .. (op.mx + op.h - 1) :
                                        op.mx + op.hx < 2 * c + 1 } }

rasterize(ops) == UNION { opCells(ops[i]) : i \in 1 .. Len(ops) }

darkCells(mods, m) ==
    UNION { { <<x + m, y + m>> : x \in { c \in 0 .. Len(mods[y + 1]) - 1 : mods[y + 1][c + 1] } } :
            y \in 0 .. Len(mods) - 1 }

Matrices(maxRows, maxCols) ==
    UNION { [1 .. r -> [1 .. c -> BOOLEAN]] : r \in 0 .. maxRows, c \in 0 .. maxCols }

IdlePath == modules = <<>> /\ margin = 0 /\ path = <<>> /\ pathPc = "idle"
IdlePlan == planArgs = Null /\ access = Null /\ planPc = "idle"
IdleSvg  == props = Null /\ svg = Null /\ svgPc = "idle"
IdleGet  == /\ req = Null /\ pc = "idle" /\ params = Null /\ shortLink = Null
            /\ workspacePlan = Null /\ qrCodeLogo = Null
            /\ calls = <<>> /\ responses = <<>>
IdleImg  == imgArgs = Null /\ imgSettings = Null /\ imgDoc = Null /\ imgPc = "idle"
IdleStyle == styleArgs = Null /\ styleEl = Null /\ stylePc = "idle"
IdleCube == cubeProps = Null /\ cube = Null /\ cubePc = "idle"
IdleExc  == excArgs = Null /\ excOut = Null /\ excPc = "idle"
IdleGrid == gridArgs = Null /\ gridOut = Null /\ gridPc = "idle"
IdleLogo == logoArgs = Null /\ logoOut = Null /\ logoPc = "idle"
IdleCors == corsArgs = Null /\ corsOut = Null /\ corsPc = "idle"

InitPath ==
    /\ modules \in Matrices(MaxRows, MaxCols)
    /\ margin \in 0 .. MaxMargin
    /\ path = <<>>
    /\ pathPc = "call"
    /\ IdlePlan /\ IdleSvg /\ IdleGet /\ IdleImg /\ IdleStyle /\ IdleCube /\ IdleExc /\ IdleGrid /\ IdleLogo /\ IdleCors

GeneratePath ==
    /\ pathPc = "call"
    /\ path' = generatePath(modules, margin)
    /\ pathPc' = "done"
    /\ UNCHANGED <<modules, margin, planVars, svgVars, getVars, imgVars, styleVars, cubeVars,
                   excVars, gridVars, logoVars, corsVars>>

NextPath == GeneratePath

SpecPath == InitPath /\ [][NextPath]_vars

\* C1: the cells filled by the path generatePath(M, m) returns are exactly the
\* dark cells of M shifted by m: none missing, none extra.
C1_PathFillsExactlyDarkCells ==
    pathPc = "done" => rasterize(path) = darkCells(modules, margin)

\* a matrix with a run reaching the last column, an isolated last-column cell
\* and a run closed by a light cell, rendered with a positive margin
C1_Witness ==
    /\ pathPc = "done"
    /\ margin > 0
    /\ Len(modules) = 2
    /\ modules[1] = <<FALSE, TRUE, TRUE, TRUE>>
    /\ modules[2] = <<TRUE, TRUE, FALSE, TRUE>>
    /\ Len(path) = 3

(***************************************************************************)
(* checkQRTypePlanAccess                                                   *)
(*                                                                         *)
(* Both tables are plain object literals, so table[key] is a JavaScript    *)
(* property read: an own property gives its value, a key the literal does  *)
(* not have is looked up on Object.prototype (constructor, toString, ...)  *)
(* and gives that member, and any other key gives undefined.               *)
(***************************************************************************)
QR_TYPE_PLAN_REQUIREMENTS ==
    [standard |-> "free", micro |-> "free", compact |-> "pro",
     custom |-> "pro", holographic |-> "business", cube3d |-> "business"]

PLAN_HIERARCHY == [free |-> 0, pro |-> 1, business |-> 2, enterprise |-> 3]

\* members every object literal inherits (the ones the model distinguishes)
ObjectPrototypeKeys == {"constructor", "toString"}

\* the value of an inherited member: a function object, truthy, not nullish
InheritedMember == "<Object.prototype member>"

\* workspacePlan || "free", requiredPlan || "business": the falsy strings and nullish values
Falsy(v) == v \in {Null, Undefined, ""}

\* QR_TYPE_PLAN_REQUIREMENTS[qrType] || "business"
requiredPlanOf(qrType) ==
    IF qrType \in DOMAIN QR_TYPE_PLAN_REQUIREMENTS THEN QR_TYPE_PLAN_REQUIREMENTS[qrType]
    ELSE IF qrType \in ObjectPrototypeKeys THEN InheritedMember
    ELSE "business"

\* PLAN_HIERARCHY[key] ?? 0, as [kind, n]: a number n, or an object (an
\* inherited member, which ?? keeps because it is not nullish)
levelOf(key) ==
    IF key \in DOMAIN PLAN_HIERARCHY THEN [kind |-> "number", n |-> PLAN_HIERARCHY[key]]
    ELSE IF key \in ObjectPrototypeKeys THEN [kind |-> "object", n |-> 0]
    ELSE [kind |-> "number", n |-> 0]

\* userLevel > requiredLevel (mutant: the required tier itself is refused)
levelAllows_strict(userLevel, requiredLevel) ==
    /\ userLevel.kind = "number"
    /\ requiredLevel.kind = "number"
    /\ userLevel.n > requiredLevel.n

\* userLevel >= requiredLevel: an operand that is not a number converts to
\* NaN, and every comparison with NaN is false
levelAllows(userLevel, requiredLevel) ==
    /\ userLevel.kind = "number"
    /\ requiredLevel.kind = "number"
    /\ userLevel.n >= requiredLevel.n

\* mutant: a missing plan counts as the business tier
checkQRTypePlanAccess_missingIsBusiness(qrType, plan) ==
    LET requiredPlan  == requiredPlanOf(qrType)
        userLevel     == levelOf(IF Falsy(plan) THEN "business" ELSE plan)
        requiredLevel == levelOf(requiredPlan)
    IN  [allowed |-> levelAllows(userLevel, requiredLevel), requiredPlan |-> requiredPlan]

checkQRTypePlanAccess(qrType, plan) ==
    LET requiredPlan  == requiredPlanOf(qrType)
        userLevel     == levelOf(IF Falsy(plan) THEN "free" ELSE plan)
        requiredLevel == levelOf(requiredPlan)
    IN  [allowed |-> levelAllows(userLevel, requiredLevel), requiredPlan |-> requiredPlan]

\* QR_CODE_TYPES of the query schema
QR_CODE_TYPES == {"standard", "micro", "compact", "custom", "holographic", "cube3d"}

\* arguments of type string: the six types, strings the table does not have
QrTypeArgs == QR_CODE_TYPES \cup {"hexagon", "", "constructor"}

\* arguments of type string | null | undefined
PlanArgs == {"free", "pro", "business", "enterprise",
             Null, Undefined, "", "starter", "constructor"}

InitPlan ==
    /\ planArgs \in [qrType : QrTypeArgs, workspacePlan : PlanArgs]
    /\ access = Null
    /\ planPc = "call"
    /\ IdlePath /\ IdleSvg /\ IdleGet /\ IdleImg /\ IdleStyle /\ IdleCube /\ IdleExc /\ IdleGrid /\ IdleLogo /\ IdleCors

CheckQRTypePlanAccess ==
    /\ planPc = "call"
    /\ access' = checkQRTypePlanAccess(planArgs.qrType, planArgs.workspacePlan)
    /\ planPc' = "done"
    /\ UNCHANGED <<planArgs, pathVars, svgVars, getVars, imgVars, styleVars, cubeVars,
                   excVars, gridVars, logoVars, corsVars>>

NextPlan == CheckQRTypePlanAccess

SpecPlan == InitPlan /\ [][NextPlan]_vars

\* the order and the table as the claim states them
C2_Level(plan) ==
    CASE plan = "free" -> 0 [] plan = "pro" -> 1
      [] plan = "business" -> 2 [] plan = "enterprise" -> 3

C2_Required(qrType) ==
    CASE qrType \in {"standard", "micro"} -> "free"
      [] qrType \in {"compact", "custom"} -> "pro"
      [] qrType \in {"holographic", "cube3d"} -> "business"

\* C2: for the six types and the four plans, allowed is exactly
\* level(plan) >= level(required(qrType)) and requiredPlan is the table's tier;
\* holographic on free is denied with requiredPlan business, standard on free is allowed.
C2_PlanGating ==
    (/\ planPc = "done"
     /\ planArgs.qrType \in QR_CODE_TYPES
     /\ planArgs.workspacePlan \in {"free", "pro", "business", "enterprise"})
    => /\ access.requiredPlan = C2_Required(planArgs.qrType)
       /\ access.allowed =
            (C2_Level(planArgs.workspacePlan) >= C2_Level(C2_Required(planArgs.qrType)))
       /\ (planArgs.qrType = "holographic" /\ planArgs.workspacePlan = "free")
            => (~access.allowed /\ access.requiredPlan = "business")
       /\ (planArgs.qrType = "standard" /\ planArgs.workspacePlan = "free")
            => access.allowed

\* a plan exactly at the required tier is allowed
C2_Witness ==
    /\ planPc = "done"
    /\ planArgs = [qrType |-> "holographic", workspacePlan |-> "business"]
    /\ access = [allowed |-> TRUE, requiredPlan |-> "business"]

\* C5: a qrType that is not in the requirements table requires business, so
\* only business and above are allowed for it; a plan that is null, undefined,
\* empty or not in the hierarchy gets what plan free gets.
C5_SafeDefaults ==
    planPc = "done" =>
       /\ planArgs.qrType \notin QR_CODE_TYPES =>
            /\ access.requiredPlan = "business"
            /\ access.allowed => planArgs.workspacePlan \in {"business", "enterprise"}
       /\ planArgs.workspacePlan \notin {"free", "pro", "business", "enterprise"} =>
            access.allowed = (access.requiredPlan = "free")

(***************************************************************************)
(* Optional values: a prop or field that is not passed (undefined) is the  *)
(* empty set, one passed with value v is {v}.                              *)
(***************************************************************************)
Opt(S)        == {{}} \cup { {v} : v \in S }
The(o)        == CHOOSE v \in o : TRUE
OrDefault(o, d) == IF o = {} THEN d ELSE The(o)

DEFAULT_SIZE    == 128
DEFAULT_LEVEL   == "L"
DEFAULT_BGCOLOR == "#FFFFFF"
DEFAULT_FGCOLOR == "#000000"
DEFAULT_MARGIN  == 2
QR_LEVELS       == <<"L", "M", "Q", "H">>

\* Math.floor(size * DEFAULT_IMG_SCALE), DEFAULT_IMG_SCALE = 0.1
defaultImgSize(size) == size \div 10

(***************************************************************************)
(* excavateModules                                                         *)
(***************************************************************************)
\* mutant: the far edges of the rectangle are taken as inside it
excavateModules_inclusive(mods, excavation) ==
    [r \in 1 .. Len(mods) |->
        LET y == r - 1 IN
        IF y < excavation.y \/ y > excavation.y + excavation.h
        THEN mods[r]
        ELSE [c \in 1 .. Len(mods[r]) |->
                LET x == c - 1 IN
                IF x < excavation.x \/ x > excavation.x + excavation.w
                THEN mods[r][c]
                ELSE FALSE]]

excavateModules(mods, excavation) ==
    [r \in 1 .. Len(mods) |->
        LET y == r - 1 IN
        IF y < excavation.y \/ y >= excavation.y + excavation.h
        THEN mods[r]
        ELSE [c \in 1 .. Len(mods[r]) |->
                LET x == c - 1 IN
                IF x < excavation.x \/ x >= excavation.x + excavation.w
                THEN mods[r][c]
                ELSE FALSE]]

(***************************************************************************)
(* generateStyledModules: one primitive per dark module, lengths in        *)
(* hundredths of a module.                                                 *)
(***************************************************************************)
\* mutant: the bottom-right corner is a finder block too
isFinderModule_fourCorners(x, y, size) ==
    \E fp \in { [x |-> 0, y |-> 0], [x |-> size - 7, y |-> 0], [x |-> 0, y |-> size - 7],
                [x |-> size - 7, y |-> size - 7] } :
        x >= fp.x /\ x < fp.x + 7 /\ y >= fp.y /\ y < fp.y + 7

\* finderPositions.some(...) for a matrix of side `size`
isFinderModule(x, y, size) ==
    \E fp \in { [x |-> 0, y |-> 0], [x |-> size - 7, y |-> 0], [x |-> 0, y |-> size - 7] } :
        x >= fp.x /\ x < fp.x + 7 /\ y >= fp.y /\ y < fp.y + 7

\* mutant: the circle touches the sides of its cell
renderDotModule_fullCircle(x, y, style, key) ==
    CASE style = "circle" ->
            [tag |-> "circle", key |-> key, cx |-> 100 * x + 50, cy |-> 100 * y + 50, r |-> 50]
      [] style = "rounded" ->
            [tag |-> "rect", key |-> key, x |-> 100 * x + 5, y |-> 100 * y + 5,
             width |-> 100 - 5 * 2, height |-> 100 - 5 * 2, rx |-> 30, ry |-> 30]
      [] style = "diamond" ->
            [tag |-> "polygon", key |-> key,
             points |-> << <<100 * x + 50, 100 * y + 5>>, <<100 * x + 95, 100 * y + 50>>,
                           <<100 * x + 50, 100 * y + 95>>, <<100 * x + 5, 100 * y + 50>> >>]
      [] OTHER ->
            [tag |-> "rect", key |-> key, x |-> 100 * x, y |-> 100 * y,
             width |-> 100, height |-> 100, rx |-> 0, ry |-> 0]

renderDotModule(x, y, style, key) ==
    CASE style = "circle" ->
            [tag |-> "circle", key |-> key, cx |-> 100 * x + 50, cy |-> 100 * y + 50, r |-> 45]
      [] style = "rounded" ->
            [tag |-> "rect", key |-> key, x |-> 100 * x + 5, y |-> 100 * y + 5,
             width |-> 100 - 5 * 2, height |-> 100 - 5 * 2, rx |-> 30, ry |-> 30]
      [] style = "diamond" ->
            [tag |-> "polygon", key |-> key,
             points |-> << <<100 * x + 50, 100 * y + 5>>, <<100 * x + 95, 100 * y + 50>>,
                           <<100 * x + 50, 100 * y + 95>>, <<100 * x + 5, 100 * y + 50>> >>]
      [] OTHER ->
            [tag |-> "rect", key |-> key, x |-> 100 * x, y |-> 100 * y,
             width |-> 100, height |-> 100, rx |-> 0, ry |-> 0]

renderCornerModule(x, y, style, key) ==
    CASE style = "circle" ->
            [tag |-> "circle", key |-> key, cx |-> 100 * x + 50, cy |-> 100 * y + 50, r |-> 50]
      [] style = "rounded" ->
            [tag |-> "rect", key |-> key, x |-> 100 * x, y |-> 100 * y,
             width |-> 100, height |-> 100, rx |-> 25, ry |-> 25]
      [] OTHER ->
            [tag |-> "rect", key |-> key, x |-> 100 * x, y |-> 100 * y,
             width |-> 100, height |-> 100, rx |-> 0, ry |-> 0]

\* mutant: the two renderers are exchanged
styledModule_swapped(x, y, size, m, dotStyle, cornerStyle) ==
    IF isFinderModule(x, y, size)
    THEN renderDotModule(x + m, y + m, dotStyle, <<x, y>>)
    ELSE renderCornerModule(x + m, y + m, cornerStyle, <<x, y>>)

\* the forEach callback for a dark cell (x, y): the primitive pushed for it
styledModule(x, y, size, m, dotStyle, cornerStyle) ==
    IF isFinderModule(x, y, size)
    THEN renderCornerModule(x + m, y + m, cornerStyle, <<x, y>>)
    ELSE renderDotModule(x + m, y + m, dotStyle, <<x, y>>)

\* modules.forEach((row, y) => row.forEach((cell, x) => ...)): the dark cells
\* in row-major order, as 0-based positions y * cols + x, and the primitive
\* pushed for each
generateStyledModules(mods, m, dotStyle, cornerStyle) ==
    LET size == Len(mods)
        cols == IF size = 0 THEN 0 ELSE Len(mods[1])
        dark == SelectSeq([k \in 1 .. size * cols |-> k - 1],
                          LAMBDA k : mods[(k \div cols) + 1][(k % cols) + 1])
    IN  [i \in 1 .. Len(dark) |->
            styledModule(dark[i] % cols, dark[i] \div cols, size, m, dotStyle, cornerStyle)]

(***************************************************************************)
(* generateGradientDef                                                     *)
(***************************************************************************)
\* mutant: the stops run from the end colour to the start colour
generateGradientDef_reversed(id, direction, startColor, endColor) ==
    LET stops == << [offset |-> "0%", stopColor |-> endColor],
                    [offset |-> "100%", stopColor |-> startColor] >>
    IN  IF direction = "radial"
        THEN [tag |-> "defs", gradient |-> "radialGradient", id |-> id,
              cx |-> "50%", cy |-> "50%", r |-> "50%", stops |-> stops]
        ELSE [tag |-> "defs", gradient |-> "linearGradient", id |-> id,
              x1 |-> "0%", y1 |-> "0%",
              x2 |-> IF direction = "vertical" THEN "0%" ELSE "100%",
              y2 |-> IF direction \in {"vertical", "diagonal"} THEN "100%" ELSE "0%",
              stops |-> stops]

generateGradientDef(id, direction, startColor, endColor) ==
    LET stops == << [offset |-> "0%", stopColor |-> startColor],
                    [offset |-> "100%", stopColor |-> endColor] >>
    IN  IF direction = "radial"
        THEN [tag |-> "defs", gradient |-> "radialGradient", id |-> id,
              cx |-> "50%", cy |-> "50%", r |-> "50%", stops |-> stops]
        ELSE [tag |-> "defs", gradient |-> "linearGradient", id |-> id,
              x1 |-> "0%", y1 |-> "0%",
              x2 |-> IF direction = "vertical" THEN "0%" ELSE "100%",
              y2 |-> IF direction \in {"vertical", "diagonal"} THEN "100%" ELSE "0%",
              stops |-> stops]

(***************************************************************************)
(* getImageSettings.  scale = qrCodeSize / size is a fraction, so the      *)
(* logo's x, y, w, h are kept as numerators over the denominator 2 * size  *)
(* (module units); Math.floor and Math.ceil are taken on the exact         *)
(* fractions (the rounding of the source's floating-point products is not  *)
(* modelled).                                                              *)
(***************************************************************************)
CeilDiv(a, b) == -((-a) \div b)

\* mutant: the width is rounded up without the fraction lost by the floor
excavationSpan_ceilOfWidth(x, w, den) ==
    [start |-> x \div den, len |-> CeilDiv(w, den)]

\* mutant: one more module than the rounded-up width
excavationSpan_oneMore(x, w, den) ==
    [start |-> x \div den, len |-> CeilDiv(w + x - (x \div den) * den, den) + 1]

\* floorX = Math.floor(x); ceilW = Math.ceil(w + x - floorX), for x and w
\* given as numerators over den (and likewise floorY, ceilH)
excavationSpan(x, w, den) ==
    LET floorX == x \div den
    IN  [start |-> floorX, len |-> CeilDiv(w + x - floorX * den, den)]

getImageSettings(cells, size, m, imageSettings) ==
    IF imageSettings = {} THEN {}
    ELSE LET is          == The(imageSettings)
             qrCodeSize  == Len(cells)
             den         == 2 * size
             width       == IF is.width = 0 THEN defaultImgSize(size) ELSE is.width
             height      == IF is.height = 0 THEN defaultImgSize(size) ELSE is.height
             w           == 2 * width * qrCodeSize
             h           == 2 * height * qrCodeSize
             x           == IF is.x = {} THEN qrCodeSize * size - width * qrCodeSize
                            ELSE 2 * The(is.x) * qrCodeSize
             y           == IF is.y = {} THEN qrCodeSize * size - height * qrCodeSize
                            ELSE 2 * The(is.y) * qrCodeSize
             spanX       == excavationSpan(x, w, den)
             spanY       == excavationSpan(y, h, den)
             floorX      == spanX.start
             floorY      == spanY.start
             ceilW       == spanX.len
             ceilH       == spanY.len
         IN  {[x |-> x, y |-> y, h |-> h, w |-> w, den |-> den,
               excavation |-> IF is.excavate
                              THEN {[x |-> floorX, y |-> floorY, w |-> ceilW, h |-> ceilH]}
                              ELSE {}]}

(***************************************************************************)
(* QRCodeSVG                                                               *)
(***************************************************************************)
\* isOGContext && imageSettings?.excavate && (level === "L" || level === "M")
shouldUseHigherErrorLevel(isOGContext, imageSettings, level) ==
    /\ isOGContext
    /\ imageSettings # {}
    /\ The(imageSettings).excavate
    /\ level \in {"L", "M"}

\* mutant: the styled types get Q whatever the requested level
effectiveLevel_alwaysQ(level, isOGContext, imageSettings, qrType) ==
    IF shouldUseHigherErrorLevel(isOGContext, imageSettings, level) THEN "Q"
    ELSE IF qrType \in {"custom", "holographic"} THEN "Q"
    ELSE level

\* mutant: the styled types are not escalated
effectiveLevel_excavationOnly(level, isOGContext, imageSettings, qrType) ==
    IF shouldUseHigherErrorLevel(isOGContext, imageSettings, level) THEN "Q" ELSE level

effectiveLevel(level, isOGContext, imageSettings, qrType) ==
    IF shouldUseHigherErrorLevel(isOGContext, imageSettings, level) THEN "Q"
    ELSE IF qrType \in {"custom", "holographic"} /\ level \in {"L", "M"} THEN "Q"
    ELSE level

\* mutant: compact is clamped like micro
effectiveMargin_compactToo(qrType, m) ==
    IF qrType \in {"micro", "compact"} THEN Min(m, 1) ELSE m

\* qrType === "micro" ? Math.min(margin, 1) : margin
effectiveMargin(qrType, m) ==
    IF qrType = "micro" THEN Min(m, 1) ELSE m

\* the <img> (raster/OG context) or <image> (vector) element of the logo;
\* a length is the fraction <<numerator, denominator>>
logoElement(is, cis, isOGContext, size, numCells, m) ==
    IF isOGContext
    THEN [tag |-> "img", src |-> is.src,
          left   |-> <<(cis.x + m * cis.den) * size, cis.den * numCells>>,
          top    |-> <<(cis.y + m * cis.den) * size, cis.den * numCells>>,
          width  |-> <<cis.w * size, cis.den * numCells>>,
          height |-> <<cis.h * size, cis.den * numCells>>]
    ELSE [tag |-> "image", src |-> is.src,
          left   |-> <<cis.x + m * cis.den, cis.den>>,
          top    |-> <<cis.y + m * cis.den, cis.den>>,
          width  |-> <<cis.w, cis.den>>,
          height |-> <<cis.h, cis.den>>]

\* <path fill={bgColor} d={`M0,0 h${numCells}v${numCells}H0z`} />
backgroundPath(bgColor, numCells) ==
    [tag |-> "path", fill |-> bgColor,
     d |-> << [mx |-> 0, my |-> 0, h |-> numCells, v |-> numCells, hx |-> 0] >>]

\* mutant: a failed encoding is tried again at the lowest level
encodeAttempts_retryAtL(value, level, encoder) ==
    IF encoder.ok THEN << [value |-> value, level |-> level] >>
    ELSE << [value |-> value, level |-> level], [value |-> value, level |-> "L"] >>

\* the calls of qrcodegen.QrCode.encodeText a render makes: the one at
\* ERROR_LEVEL_MAP[effectiveLevel], outside any try or loop
encodeAttempts(value, level, encoder) == << [value |-> value, level |-> level] >>

\* mutant: a qrStyle switches any type to styled rendering
useStyledRendering_anyType(qrType, qrStyle) == qrStyle # {}

\* (qrType === "custom" || qrType === "holographic") && qrStyle: an object,
\* even an empty one, is truthy
useStyledRendering(qrType, qrStyle) ==
    qrType \in {"custom", "holographic"} /\ qrStyle # {}

\* mutant: the margin is added on one side only
numCellsOf_oneSide(side, effMargin) == side + effMargin

\* const numCells = cells.length + effectiveMargin * 2
numCellsOf(side, effMargin) == side + effMargin * 2

\* `encoder` is what qrcodegen.QrCode.encodeText answers for (value, level):
\* [ok |-> TRUE, modules] or [ok |-> FALSE] when it throws
QRCodeSVG(p, encoder) ==
    LET size          == OrDefault(p.size, DEFAULT_SIZE)
        level         == OrDefault(p.level, DEFAULT_LEVEL)
        bgColor       == OrDefault(p.bgColor, DEFAULT_BGCOLOR)
        fgColor       == OrDefault(p.fgColor, DEFAULT_FGCOLOR)
        m             == OrDefault(p.margin, DEFAULT_MARGIN)
        isOGContext   == OrDefault(p.isOGContext, FALSE)
        imageSettings == p.imageSettings
        qrType        == OrDefault(p.qrType, "standard")
        qrStyle       == p.qrStyle
        effLevel      == effectiveLevel(level, isOGContext, imageSettings, qrType)
        effMargin     == effectiveMargin(qrType, m)
    IN  IF ~encoder.ok
        THEN [threw |-> TRUE, encodeCalls |-> encodeAttempts(p.value, effLevel, encoder)]
        ELSE
        LET numCells == numCellsOf(Len(encoder.modules), effMargin)
            calculatedImageSettings ==
                getImageSettings(encoder.modules, size, effMargin, imageSettings)
            cells == IF calculatedImageSettings # {} /\ The(calculatedImageSettings).excavation # {}
                     THEN excavateModules(encoder.modules,
                                          The(The(calculatedImageSettings).excavation))
                     ELSE encoder.modules
            image == IF imageSettings # {} /\ calculatedImageSettings # {}
                     THEN << logoElement(The(imageSettings), The(calculatedImageSettings),
                                         isOGContext, size, numCells, effMargin) >>
                     ELSE << >>
            styled             == useStyledRendering(qrType, qrStyle)
            useGradient        == qrType = "holographic" /\ qrStyle # {}
            gradientId         == "qr-holo-gradient"
            style              == The(qrStyle)
            styledElements ==
                generateStyledModules(cells, effMargin,
                    OrDefault(style.dotStyle,
                              IF qrType = "holographic" THEN "rounded" ELSE "square"),
                    OrDefault(style.cornerStyle, "square"))
            fillColor == IF useGradient THEN <<"url", gradientId>> ELSE <<"color", fgColor>>
            children ==
                IF styled
                THEN (IF useGradient
                      THEN << generateGradientDef(gradientId,
                                OrDefault(style.gradientDirection, "horizontal"),
                                OrDefault(style.gradientStartColor, "#8A2BE2"),
                                OrDefault(style.gradientEndColor, "#00CED1")) >>
                      ELSE << >>)
                     \o << backgroundPath(bgColor, numCells),
                           [tag |-> "g", fill |-> fillColor, elements |-> styledElements] >>
                     \o image
                ELSE << backgroundPath(bgColor, numCells),
                        [tag |-> "path", fill |-> <<"color", fgColor>>,
                         d |-> generatePath(cells, effMargin)] >>
                     \o image
        IN  [threw |-> FALSE,
             encodeCalls |-> encodeAttempts(p.value, effLevel, encoder),
             height |-> size, width |-> size,
             viewBox |-> <<0, 0, numCells, numCells>>,
             children |-> children]

(***************************************************************************)
(* QRCodeSVG as a call: the props and the encoder's answer are the inputs. *)
(***************************************************************************)
\* matrices the encoder may answer: full and chequered squares of every side
EncoderMatrices ==
    { [r \in 1 .. n |-> [c \in 1 .. n |-> IF full THEN TRUE ELSE (r + c) % 2 = 0]] :
        n \in 1 .. MaxSide, full \in BOOLEAN }

EncoderAnswers ==
    { [ok |-> TRUE, modules |-> mods] : mods \in EncoderMatrices }
        \cup { [ok |-> FALSE, modules |-> << >>] }

QR_GRADIENT_DIRECTION_VALUES == {"horizontal", "vertical", "diagonal", "radial"}

\* the empty settings object, and settings with every field set
StyleSettings ==
    { [dotStyle |-> {}, cornerStyle |-> {}, gradientDirection |-> {},
       gradientStartColor |-> {}, gradientEndColor |-> {}] }
    \cup
    { [dotStyle |-> {"circle"}, cornerStyle |-> {"rounded"}, gradientDirection |-> {d},
       gradientStartColor |-> {"#FF69B4"}, gradientEndColor |-> {"#4169E1"}] :
        d \in QR_GRADIENT_DIRECTION_VALUES }

ImageSettingsOf(size) ==
    { [src |-> "logo.png", width |-> size \div 4, height |-> size \div 4,
       excavate |-> e, x |-> {}, y |-> {}] : e \in BOOLEAN }

PropsSet ==
    [ value         : {"https://dub.sh/x"},
      size          : Opt({16}),
      level         : Opt({"L", "M", "Q", "H"}),
      bgColor       : {{}},
      fgColor       : Opt({"#1A2B3C"}),
      margin        : Opt(0 .. MaxMargin),
      isOGContext   : Opt(BOOLEAN),
      imageSettings : Opt(ImageSettingsOf(16)),
      qrType        : Opt(QR_CODE_TYPES),
      qrStyle       : Opt(StyleSettings) ]

InitSvg ==
    /\ props \in [ p : PropsSet, encoder : EncoderAnswers ]
    /\ svg = Null
    /\ svgPc = "call"
    /\ IdlePath /\ IdlePlan /\ IdleGet /\ IdleImg /\ IdleStyle /\ IdleCube /\ IdleExc /\ IdleGrid /\ IdleLogo /\ IdleCors

RenderSvg ==
    /\ svgPc = "call"
    /\ svg' = QRCodeSVG(props.p, props.encoder)
    /\ svgPc' = "done"
    /\ UNCHANGED <<props, pathVars, planVars, getVars, imgVars, styleVars, cubeVars,
                   excVars, gridVars, logoVars, corsVars>>

NextSvg == RenderSvg

SpecSvg == InitSvg /\ [][NextSvg]_vars

(***************************************************************************)
(* GET /api/qr                                                             *)
(*                                                                         *)
(* The handler is one async function; it is cut at its awaits and at its   *)
(* returns.  What the services it awaits answer (the rate limiter, the     *)
(* short-link, workspace and domain lookups, the encoder) is chosen by the *)
(* environment at each call; every one of them may also throw, which       *)
(* lands in the handler's catch.                                           *)
(***************************************************************************)
DUB_QR_LOGO   == "<DUB_QR_LOGO>"
DEFAULT_QUERY_SIZE == 600

CORS_HEADERS ==
    [AccessControlAllowOrigin |-> "*", AccessControlAllowMethods |-> "GET, OPTIONS",
     XContentTypeOptions |-> "nosniff", XFrameOptions |-> "DENY"]

\* getQRCodeQuerySchema.parse: [ok |-> FALSE] when it throws, else the parsed
\* parameters with the schema's defaults filled in
parseQuery(raw) ==
    IF \/ raw.url = {}
       \/ (raw.qrType # {} /\ The(raw.qrType) \notin QR_CODE_TYPES)
       \/ (raw.level # {} /\ The(raw.level) \notin {"L", "M", "Q", "H"})
    THEN [ok |-> FALSE]
    ELSE [ok |-> TRUE,
          url      |-> The(raw.url),
          logo     |-> raw.logo,
          size     |-> OrDefault(raw.size, DEFAULT_QUERY_SIZE),
          level    |-> OrDefault(raw.level, "L"),
          fgColor  |-> OrDefault(raw.fgColor, DEFAULT_FGCOLOR),
          bgColor  |-> OrDefault(raw.bgColor, DEFAULT_BGCOLOR),
          hideLogo |-> OrDefault(raw.hideLogo, FALSE),
          margin   |-> OrDefault(raw.margin, DEFAULT_MARGIN),
          qrType   |-> OrDefault(raw.qrType, "standard"),
          dotStyle |-> OrDefault(raw.dotStyle, "square"),
          cornerStyle        |-> OrDefault(raw.cornerStyle, "square"),
          gradientDirection  |-> OrDefault(raw.gradientDirection, "horizontal"),
          gradientStartColor |-> OrDefault(raw.gradientStartColor, "#8A2BE2"),
          gradientEndColor   |-> OrDefault(raw.gradientEndColor, "#00CED1")]

\* what getShortLinkViaEdge, getWorkspaceViaEdge and getDomainViaEdge may answer;
\* plan "" and logo "" stand for a missing (null) column
LinkAnswers ==
    { [kind |-> "null", domain |-> ""], [kind |-> "throw", domain |-> ""],
      [kind |-> "link", domain |-> "dub.sh"], [kind |-> "link", domain |-> "acme.com"] }

WorkspacePlans == {"", "free", "pro", "business", "enterprise"}

WorkspaceAnswers ==
    { [kind |-> k, plan |-> "", logo |-> ""] : k \in {"null", "throw"} }
        \cup { [kind |-> "workspace", plan |-> pl, logo |-> lg] :
                    pl \in WorkspacePlans, lg \in {"", "https://acme.com/ws.png"} }

DomainAnswers ==
    { [kind |-> k, logo |-> ""] : k \in {"null", "throw"} }
        \cup { [kind |-> "domain", logo |-> lg] : lg \in {"", "https://acme.com/domain.png"} }

isDubDomain(domain) == domain \in {"dub.sh"}

\* mutant: hideLogo is honoured before the link and the plan are looked at
getQRCodeLogo_hideFirst(a, link, workspace, domain) ==
    LET c1 == <<"getQRCodeLogo", "getShortLinkViaEdge">>
        c2 == c1 \o <<"getWorkspaceViaEdge">>
        c3 == c2 \o <<"getDomainViaEdge">>
        wsLogo == IF workspace.kind = "workspace" THEN workspace.logo ELSE ""
        dmLogo == IF domain.kind = "domain" THEN domain.logo ELSE ""
    IN  IF link.kind = "throw" THEN [threw |-> TRUE, logo |-> {}, calls |-> c1]
        ELSE IF a.hideLogo THEN [threw |-> FALSE, logo |-> {}, calls |-> c1]
        ELSE IF link.kind = "null" THEN [threw |-> FALSE, logo |-> {DUB_QR_LOGO}, calls |-> c1]
        ELSE IF a.workspacePlan = "free" \/ Falsy(a.workspacePlan)
             THEN [threw |-> FALSE, logo |-> {DUB_QR_LOGO}, calls |-> c1]
        ELSE IF a.logo # {} /\ The(a.logo) # ""
             THEN [threw |-> FALSE, logo |-> a.logo, calls |-> c1]
        ELSE IF workspace.kind = "throw" THEN [threw |-> TRUE, logo |-> {}, calls |-> c2]
        ELSE IF isDubDomain(link.domain) /\ wsLogo = ""
             THEN [threw |-> FALSE, logo |-> {DUB_QR_LOGO}, calls |-> c2]
        ELSE IF domain.kind = "throw" THEN [threw |-> TRUE, logo |-> {}, calls |-> c3]
        ELSE [threw |-> FALSE, calls |-> c3,
              logo |-> IF dmLogo # "" THEN {dmLogo}
                       ELSE IF wsLogo # "" THEN {wsLogo} ELSE {DUB_QR_LOGO}]

\* getQRCodeLogo with the answers its three lookups get: [threw, logo, calls],
\* logo = {} for null
getQRCodeLogo(a, link, workspace, domain) ==
    LET c1 == <<"getQRCodeLogo", "getShortLinkViaEdge">>
        c2 == c1 \o <<"getWorkspaceViaEdge">>
        c3 == c2 \o <<"getDomainViaEdge">>
        wsLogo == IF workspace.kind = "workspace" THEN workspace.logo ELSE ""
        dmLogo == IF domain.kind = "domain" THEN domain.logo ELSE ""
    IN  IF link.kind = "throw" THEN [threw |-> TRUE, logo |-> {}, calls |-> c1]
        ELSE IF link.kind = "null" THEN [threw |-> FALSE, logo |-> {DUB_QR_LOGO}, calls |-> c1]
        ELSE IF a.workspacePlan = "free" \/ Falsy(a.workspacePlan)
             THEN [threw |-> FALSE, logo |-> {DUB_QR_LOGO}, calls |-> c1]
        ELSE IF a.hideLogo THEN [threw |-> FALSE, logo |-> {}, calls |-> c1]
        ELSE IF a.logo # {} /\ The(a.logo) # ""
             THEN [threw |-> FALSE, logo |-> a.logo, calls |-> c1]
        ELSE IF workspace.kind = "throw" THEN [threw |-> TRUE, logo |-> {}, calls |-> c2]
        ELSE IF isDubDomain(link.domain) /\ wsLogo = ""
             THEN [threw |-> FALSE, logo |-> {DUB_QR_LOGO}, calls |-> c2]
        ELSE IF domain.kind = "throw" THEN [threw |-> TRUE, logo |-> {}, calls |-> c3]
        ELSE [threw |-> FALSE, calls |-> c3,
              logo |-> IF dmLogo # "" THEN {dmLogo}
                       ELSE IF wsLogo # "" THEN {wsLogo} ELSE {DUB_QR_LOGO}]

\* mutant: the message names the default tier, not the one the type requires
forbiddenMessage_defaultTier(qrType, requiredPlan) ==
    <<"The \"", qrType, "\" QR code type requires a ", "business",
      " plan or above. Upgrade to access this feature.">>

\* the message of the 403: the template with its two holes
forbiddenMessage(qrType, requiredPlan) ==
    <<"The \"", qrType, "\" QR code type requires a ", requiredPlan,
      " plan or above. Upgrade to access this feature.">>

forbiddenResponse(qrType, requiredPlan) ==
    [via |-> "Response", status |-> 403,
     body |-> [error |-> [code |-> "forbidden",
                          message |-> forbiddenMessage(qrType, requiredPlan),
                          doc_url |-> "https://dub.co/help/article/custom-qr-codes"]],
     headers |-> [cors |-> CORS_HEADERS, ContentType |-> "application/json"]]

\* mutant: the handler does not mark the render as an OG render
renderProps_notOG(pp, logo) ==
    LET effMargin == IF pp.qrType = "micro" THEN Min(pp.margin, 1) ELSE pp.margin
    IN  [ value         |-> pp.url,
          size          |-> {pp.size},
          level         |-> {pp.level},
          bgColor       |-> {pp.bgColor},
          fgColor       |-> {pp.fgColor},
          margin        |-> {effMargin},
          isOGContext   |-> {},
          imageSettings |-> IF logo # {} /\ The(logo) # ""
                            THEN {[src |-> The(logo), height |-> pp.size \div 4,
                                   width |-> pp.size \div 4, excavate |-> TRUE,
                                   x |-> {}, y |-> {}]}
                            ELSE {},
          qrType        |-> {pp.qrType},
          qrStyle       |-> IF pp.qrType \in {"custom", "holographic"}
                            THEN {[dotStyle |-> {pp.dotStyle},
                                   cornerStyle |-> {pp.cornerStyle},
                                   gradientDirection |->
                                       IF pp.qrType = "holographic"
                                       THEN {pp.gradientDirection} ELSE {},
                                   gradientStartColor |->
                                       IF pp.qrType = "holographic"
                                       THEN {pp.gradientStartColor} ELSE {},
                                   gradientEndColor |->
                                       IF pp.qrType = "holographic"
                                       THEN {pp.gradientEndColor} ELSE {}]}
                            ELSE {} ]

\* the props the handler hands to QRCodeSVG
renderProps(pp, logo) ==
    LET effMargin == IF pp.qrType = "micro" THEN Min(pp.margin, 1) ELSE pp.margin
    IN  [ value         |-> pp.url,
          size          |-> {pp.size},
          level         |-> {pp.level},
          bgColor       |-> {pp.bgColor},
          fgColor       |-> {pp.fgColor},
          margin        |-> {effMargin},
          isOGContext   |-> {TRUE},
          imageSettings |-> IF logo # {} /\ The(logo) # ""
                            THEN {[src |-> The(logo), height |-> pp.size \div 4,
                                   width |-> pp.size \div 4, excavate |-> TRUE,
                                   x |-> {}, y |-> {}]}
                            ELSE {},
          qrType        |-> {pp.qrType},
          qrStyle       |-> IF pp.qrType \in {"custom", "holographic"}
                            THEN {[dotStyle |-> {pp.dotStyle},
                                   cornerStyle |-> {pp.cornerStyle},
                                   gradientDirection |->
                                       IF pp.qrType = "holographic"
                                       THEN {pp.gradientDirection} ELSE {},
                                   gradientStartColor |->
                                       IF pp.qrType = "holographic"
                                       THEN {pp.gradientStartColor} ELSE {},
                                   gradientEndColor |->
                                       IF pp.qrType = "holographic"
                                       THEN {pp.gradientEndColor} ELSE {}]}
                            ELSE {} ]

\* mutant: the rate limiter is asked after the plan has been looked up
stepAfter_lookupFirst(at) ==
    CASE at = "parse" -> "lookupLink"
      [] at = "lookupLink" -> "lookupWorkspace"
      [] at = "lookupWorkspace" -> "ratelimit"
      [] at = "ratelimit" -> "planCheck"
      [] at = "planCheck" -> "logo"
      [] at = "logo" -> "render"

\* mutant: the licensing check is made after the logo has been resolved
stepAfter_logoFirst(at) ==
    CASE at = "parse" -> "ratelimit"
      [] at = "ratelimit" -> "lookupLink"
      [] at = "lookupLink" -> "lookupWorkspace"
      [] at = "lookupWorkspace" -> "logo"
      [] at = "logo" -> "planCheck"
      [] at = "planCheck" -> "render"

\* the order of the handler's statements: the step that follows `at`
stepAfter(at) ==
    CASE at = "parse" -> "ratelimit"
      [] at = "ratelimit" -> "lookupLink"
      [] at = "lookupLink" -> "lookupWorkspace"
      [] at = "lookupWorkspace" -> "planCheck"
      [] at = "planCheck" -> "logo"
      [] at = "logo" -> "render"

RawQueries ==
    [ url      : Opt({"https://dub.sh/x"}),
      logo     : Opt({"https://acme.com/logo.png"}),
      size     : {{}},
      level    : Opt({"L", "M", "Q", "H"}),
      fgColor  : {{}},
      bgColor  : {{}},
      hideLogo : Opt(BOOLEAN),
      margin   : Opt(0 .. MaxMargin),
      qrType   : Opt(QR_CODE_TYPES \cup {"hexagon"}),
      dotStyle : {{}}, cornerStyle : {{}}, gradientDirection : {{}},
      gradientStartColor : {{}}, gradientEndColor : {{}} ]

Init ==
    /\ req \in [ query : RawQueries, limited : BOOLEAN ]
    /\ pc = "parse"
    /\ params = [ok |-> FALSE]
    /\ shortLink = Null
    /\ workspacePlan = Null
    /\ qrCodeLogo = Null
    /\ calls = <<>>
    /\ responses = <<>>
    /\ IdlePath /\ IdlePlan /\ IdleSvg /\ IdleImg /\ IdleStyle /\ IdleCube /\ IdleExc /\ IdleGrid /\ IdleLogo /\ IdleCors

\* const paramsParsed = getQRCodeQuerySchema.parse(getSearchParams(req.url))
ParseParams ==
    /\ pc = "parse"
    /\ LET parsed == parseQuery(req.query) IN
        /\ calls' = Append(calls, "getQRCodeQuerySchema.parse")
        /\ IF parsed.ok
           THEN params' = parsed /\ pc' = stepAfter("parse")
           ELSE params' = params /\ pc' = "catch"
    /\ UNCHANGED <<req, shortLink, workspacePlan, qrCodeLogo, responses,
                   pathVars, planVars, svgVars, imgVars, styleVars, cubeVars,
                   excVars, gridVars, logoVars, corsVars>>

\* await ratelimitOrThrow(req, "qr")
Ratelimit ==
    /\ pc = "ratelimit"
    /\ calls' = Append(calls, "ratelimitOrThrow")
    /\ pc' = IF req.limited THEN "catch" ELSE stepAfter("ratelimit")
    /\ UNCHANGED <<req, params, shortLink, workspacePlan, qrCodeLogo, responses,
                   pathVars, planVars, svgVars, imgVars, styleVars, cubeVars,
                   excVars, gridVars, logoVars, corsVars>>

\* const shortLink = await getShortLinkViaEdge(url.split("?")[0]);
\* let workspacePlan = null; if (shortLink) ...
LookupShortLink ==
    /\ pc = "lookupLink"
    /\ \E link \in LinkAnswers :
        /\ calls' = Append(calls, "getShortLinkViaEdge")
        /\ IF link.kind = "throw"
           THEN shortLink' = shortLink /\ pc' = "catch"
           ELSE /\ shortLink' = link
                /\ pc' = IF link.kind = "link" THEN stepAfter("lookupLink")
                         ELSE stepAfter("lookupWorkspace")
    /\ UNCHANGED <<req, params, workspacePlan, qrCodeLogo, responses,
                   pathVars, planVars, svgVars, imgVars, styleVars, cubeVars,
                   excVars, gridVars, logoVars, corsVars>>

\* const workspace = await getWorkspaceViaEdge(...); workspacePlan = workspace?.plan || null
LookupWorkspace ==
    /\ pc = "lookupWorkspace"
    /\ \E workspace \in WorkspaceAnswers :
        /\ calls' = Append(calls, "getWorkspaceViaEdge")
        /\ IF workspace.kind = "throw"
           THEN workspacePlan' = workspacePlan /\ pc' = "catch"
           ELSE /\ workspacePlan' = IF workspace.kind = "workspace" /\ workspace.plan # ""
                                    THEN workspace.plan ELSE Null
                /\ pc' = stepAfter("lookupWorkspace")
    /\ UNCHANGED <<req, params, shortLink, qrCodeLogo, responses,
                   pathVars, planVars, svgVars, imgVars, styleVars, cubeVars,
                   excVars, gridVars, logoVars, corsVars>>

\* mutant: the 403 branch does not leave the handler
afterDenial_fallThrough == stepAfter("planCheck")

\* the `return` of the 403 branch: the handler is finished
afterDenial == "done"

\* if (qrType !== "standard") { ... if (!allowed) return new Response(..., 403) }
PlanCheck ==
    /\ pc = "planCheck"
    /\ IF params.qrType # "standard"
       THEN LET res == checkQRTypePlanAccess(params.qrType, workspacePlan) IN
            /\ calls' = Append(calls, "checkQRTypePlanAccess")
            /\ IF ~res.allowed
               THEN /\ responses' = Append(responses,
                                           forbiddenResponse(params.qrType, res.requiredPlan))
                    /\ pc' = afterDenial
               ELSE responses' = responses /\ pc' = stepAfter("planCheck")
       ELSE calls' = calls /\ responses' = responses /\ pc' = stepAfter("planCheck")
    /\ UNCHANGED <<req, params, shortLink, workspacePlan, qrCodeLogo,
                   pathVars, planVars, svgVars, imgVars, styleVars, cubeVars,
                   excVars, gridVars, logoVars, corsVars>>

\* effectiveHideLogo, and const qrCodeLogo = await getQRCodeLogo({...})
ResolveLogo ==
    /\ pc = "logo"
    /\ \E link \in LinkAnswers, workspace \in WorkspaceAnswers, domain \in DomainAnswers :
        LET effectiveHideLogo == IF params.qrType \in {"micro", "compact"}
                                 THEN TRUE ELSE params.hideLogo
            res == getQRCodeLogo([url |-> params.url, logo |-> params.logo,
                                  hideLogo |-> effectiveHideLogo,
                                  workspacePlan |-> workspacePlan],
                                 link, workspace, domain)
        IN  /\ calls' = calls \o res.calls
            /\ IF res.threw
               THEN qrCodeLogo' = qrCodeLogo /\ pc' = "catch"
               ELSE qrCodeLogo' = res.logo /\ pc' = stepAfter("logo")
    /\ UNCHANGED <<req, params, shortLink, workspacePlan, responses,
                   pathVars, planVars, svgVars, imgVars, styleVars, cubeVars,
                   excVars, gridVars, logoVars, corsVars>>

\* return new ImageResponse(QRCodeSVG({...}), { width: size, height: size, headers })
Render ==
    /\ pc = "render"
    /\ \E encoder \in EncoderAnswers :
        LET doc == QRCodeSVG(renderProps(params, qrCodeLogo), encoder) IN
        /\ calls' = calls \o <<"QRCodeSVG", "encodeText">>
                          \o (IF doc.threw THEN <<>> ELSE <<"ImageResponse">>)
        /\ IF doc.threw
           THEN responses' = responses /\ pc' = "catch"
           ELSE /\ responses' = Append(responses,
                        [via |-> "ImageResponse", status |-> 200, body |-> doc,
                         width |-> params.size, height |-> params.size,
                         headers |-> [cors |-> CORS_HEADERS]])
                /\ pc' = "done"
    /\ UNCHANGED <<req, params, shortLink, workspacePlan, qrCodeLogo,
                   pathVars, planVars, svgVars, imgVars, styleVars, cubeVars,
                   excVars, gridVars, logoVars, corsVars>>

\* catch (error) { return handleAndReturnErrorResponse(error, CORS_HEADERS) }
Catch ==
    /\ pc = "catch"
    /\ calls' = Append(calls, "handleAndReturnErrorResponse")
    /\ responses' = Append(responses,
            [via |-> "handleAndReturnErrorResponse", thrownBy |-> calls[Len(calls)],
             headers |-> [cors |-> CORS_HEADERS]])
    /\ pc' = "done"
    /\ UNCHANGED <<req, params, shortLink, workspacePlan, qrCodeLogo,
                   pathVars, planVars, svgVars, imgVars, styleVars, cubeVars,
                   excVars, gridVars, logoVars, corsVars>>

Next ==
    \/ ParseParams
    \/ Ratelimit
    \/ LookupShortLink
    \/ LookupWorkspace
    \/ PlanCheck
    \/ ResolveLogo
    \/ Render
    \/ Catch

Spec == Init /\ [][Next]_vars

(***************************************************************************)
(* Properties of QRCodeSVG (SpecSvg).                                      *)
(***************************************************************************)
Rendered       == svgPc = "done" /\ ~svg.threw
ReqLevel       == OrDefault(props.p.level, "L")
ReqMargin      == OrDefault(props.p.margin, 2)
ReqType        == OrDefault(props.p.qrType, "standard")
ReqOG          == OrDefault(props.p.isOGContext, FALSE)
ReqExcavates   == props.p.imageSettings # {} /\ The(props.p.imageSettings).excavate
EncodedLevel   == svg.encodeCalls[1].level
LevelRank(l)   == CHOOSE k \in 1 .. 4 : QR_LEVELS[k] = l

\* the elements of a document with a given tag, in document order
Tagged(doc, tag) == SelectSeq(doc.children, LAMBDA e : e.tag = tag)

\* the module cell a styled primitive is drawn in
PrimitiveCell(e) ==
    CASE e.tag = "circle"  -> <<e.cx \div 100, e.cy \div 100>>
      [] e.tag = "rect"    -> <<e.x \div 100, e.y \div 100>>
      [] e.tag = "polygon" -> <<e.points[4][1] \div 100, e.points[1][2] \div 100>>

\* the document draws its foreground with the modules shifted by e
ForegroundShiftedBy(doc, mods, e, exact) ==
    IF Len(Tagged(doc, "g")) > 0
    THEN LET els == Tagged(doc, "g")[1].elements
         IN  \A k \in 1 .. Len(els) :
                PrimitiveCell(els[k]) = <<els[k].key[1] + e, els[k].key[2] + e>>
    ELSE LET filled == rasterize(Tagged(doc, "path")[2].d)
         IN  /\ filled \subseteq darkCells(mods, e)
             /\ exact => filled = darkCells(mods, e)

\* C7: for micro the margin used for the path offset, the background and the
\* viewBox is min(requested, 1), so at most 1 (requested 2 gives 1 and a
\* viewBox of side N + 2); for every other type it is the requested margin.
C7_EffectiveMargin ==
    Rendered =>
        LET N == Len(props.encoder.modules)
            E == IF ReqType = "micro"
                 THEN (IF ReqMargin > 1 THEN 1 ELSE ReqMargin)
                 ELSE ReqMargin
            S == N + 2 * E
        IN  /\ ReqType = "micro" => E <= 1
            /\ (ReqType = "micro" /\ ReqMargin = 2) => svg.viewBox = <<0, 0, N + 2, N + 2>>
            /\ svg.viewBox = <<0, 0, S, S>>
            /\ Tagged(svg, "path")[1].d = << [mx |-> 0, my |-> 0, h |-> S, v |-> S, hx |-> 0] >>
            /\ ForegroundShiftedBy(svg, props.encoder.modules, E, props.p.imageSettings = {})

\* micro with requested margin 2 is drawn with margin 1; compact keeps 2
C7_Witness ==
    /\ Rendered
    /\ ReqType = "micro"
    /\ props.p.margin = {2}
    /\ Len(props.encoder.modules) = 2
    /\ svg.viewBox = <<0, 0, 4, 4>>
    /\ Len(Tagged(svg, "path")[2].d) > 0

C9_ExcavationForcesQ ==
    (svgPc = "done" /\ ReqExcavates /\ ReqLevel \in {"L", "M"}) => EncodedLevel = "Q"

\* C10: the level handed to the encoder is never lower than the requested one
\* in the order L < M < Q < H.
C10_NeverDowngraded ==
    svgPc = "done" => LevelRank(EncodedLevel) >= LevelRank(ReqLevel)

\* a styled type with an excavating overlay in the OG context, requested at H, stays H
C10_Witness ==
    /\ svgPc = "done"
    /\ ReqType = "custom"
    /\ ReqOG /\ ReqExcavates
    /\ props.p.level = {"H"}
    /\ EncodedLevel = "H"

(***************************************************************************)
(* Properties of the GET handler (Spec).                                   *)
(***************************************************************************)
Called(fn)      == \E k \in 1 .. Len(calls) : calls[k] = fn
ResponsesVia(v) == SelectSeq(responses, LAMBDA r : r.via = v)

\* the licensing check has been made for this request and it denied it
CheckDenied ==
    /\ Called("checkQRTypePlanAccess")
    /\ ~checkQRTypePlanAccess(params.qrType, workspacePlan).allowed

\* C3: the plan check comes strictly before any module computation: once the
\* check has denied the request, the logo resolution, QRCodeSVG and the encoder
\* have not been and are never invoked, and no image is returned; and for a gated
\* type every such call is preceded by the check.
C3_CheckBeforeRender ==
    /\ CheckDenied =>
            /\ ~Called("getQRCodeLogo") /\ ~Called("getDomainViaEdge")
            /\ ~Called("QRCodeSVG") /\ ~Called("encodeText") /\ ~Called("ImageResponse")
            /\ Len(ResponsesVia("ImageResponse")) = 0
    /\ \A k \in 1 .. Len(calls) :
            (calls[k] \in {"getQRCodeLogo", "QRCodeSVG", "encodeText"}
                /\ params.qrType # "standard")
            => \E j \in 1 .. k - 1 : calls[j] = "checkQRTypePlanAccess"

\* a denied holographic request of a pro workspace: answered after five calls
C3_Witness ==
    /\ pc = "done"
    /\ CheckDenied
    /\ params.qrType = "holographic" /\ workspacePlan = "pro"
    /\ calls = <<"getQRCodeQuerySchema.parse", "ratelimitOrThrow", "getShortLinkViaEdge",
                 "getWorkspaceViaEdge", "checkQRTypePlanAccess">>
    /\ Len(responses) = 1

\* the request has reached the licensing step and its type exceeds the plan
C4_Exceeds ==
    /\ pc \in {"logo", "render", "catch", "done"}
    /\ params.ok
    /\ (Called("checkQRTypePlanAccess") \/ params.qrType = "standard")
    /\ (IF workspacePlan = Null THEN 0 ELSE C2_Level(workspacePlan))
            < C2_Level(C2_Required(params.qrType))

\* C4 as stated: the 403 body has the code "forbidden", a message and a
\* requiredPlan field carrying the required tier.
C4_BodyHasRequiredPlanField ==
    C4_Exceeds =>
        /\ Len(responses) = 1
        /\ responses[1].via = "Response"
        /\ responses[1].status = 403
        /\ LET e == responses[1].body.error IN
            /\ e.code = "forbidden"
            /\ "message" \in DOMAIN e
            /\ "requiredPlan" \in DOMAIN e
            /\ e.requiredPlan = C2_Required(params.qrType)

\* C4 (amended): when the type exceeds the plan the handler answers 403, once,
\* with the body {error: {code: "forbidden", message, doc_url}}, the message
\* naming the type and the required tier; no other request is answered 403.
C4_Forbidden403 ==
    /\ C4_Exceeds =>
        /\ pc = "done"
        /\ Len(responses) = 1
        /\ responses[1].via = "Response"
        /\ responses[1].status = 403
        /\ responses[1].headers.ContentType = "application/json"
        /\ LET e == responses[1].body.error IN
            /\ DOMAIN e = {"code", "message", "doc_url"}
            /\ e.code = "forbidden"
            /\ e.message[2] = params.qrType
            /\ e.message[4] = C2_Required(params.qrType)
    /\ Len(ResponsesVia("Response")) > 0 => C4_Exceeds

\* a compact request for a URL that is no short link (plan free) is answered 403
C4_Witness ==
    /\ pc = "done"
    /\ C4_Exceeds
    /\ params.qrType = "compact"
    /\ shortLink.kind = "null"
    /\ responses[1].status = 403
    /\ responses[1].body.error.message[4] = "pro"

\* C6: for micro and compact no logo is composited into the image the endpoint
\* returns, for every workspace plan and every URL.
C6_NoLogoForMicroCompact ==
    \A k \in 1 .. Len(responses) :
        (responses[k].via = "ImageResponse" /\ params.qrType \in {"micro", "compact"})
        => /\ Len(Tagged(responses[k].body, "img")) = 0
           /\ Len(Tagged(responses[k].body, "image")) = 0

\* C11: the foreground is drawn with styled primitives exactly when qrType is
\* custom or holographic and a qrStyle object is given (an empty one counts);
\* in every other case it is one path; a document never holds both a
\* foreground path and a group of styled primitives.
C11_StyledIffTypeAndStyle ==
    Rendered =>
        LET groups == Len(Tagged(svg, "g"))
            paths  == Len(Tagged(svg, "path"))
            wanted == ReqType \in {"custom", "holographic"} /\ props.p.qrStyle # {}
        IN  /\ wanted  => groups = 1 /\ paths = 1
            /\ ~wanted => groups = 0 /\ paths = 2
            /\ ~(groups > 0 /\ paths > 1)

\* a custom code with an empty settings object drawn as styled primitives,
\* over a matrix with dark modules
C11_Witness ==
    /\ Rendered
    /\ ReqType = "custom"
    /\ props.p.qrStyle # {}
    /\ The(props.p.qrStyle).dotStyle = {}
    /\ Len(Tagged(svg, "g")) = 1
    /\ Len(Tagged(svg, "g")[1].elements) > 0

(***************************************************************************)
(* getImageSettings over the logo geometries a caller can pass: any pixel  *)
(* width and height up to the rendered size, centred or placed at a pixel  *)
(* position (also partly outside the symbol), followed by the render that  *)
(* uses the settings.                                                      *)
(***************************************************************************)
MaxPx == 6

\* the all-dark matrix of a given side: every excavated cell would be drawn
DarkMatrix(n) == [r \in 1 .. n |-> [c \in 1 .. n |-> TRUE]]

LogoSettings ==
    [ src : {"logo.png"}, width : 1 .. MaxPx, height : 1 .. MaxPx,
      excavate : BOOLEAN, x : Opt(-1 .. MaxPx), y : Opt(-1 .. MaxPx) ]

InitImg ==
    /\ imgArgs \in [ side : 1 .. MaxSide, size : {MaxPx}, imageSettings : LogoSettings ]
    /\ imgSettings = Null
    /\ imgDoc = Null
    /\ imgPc = "call"
    /\ IdlePath /\ IdlePlan /\ IdleSvg /\ IdleGet /\ IdleStyle /\ IdleCube /\ IdleExc /\ IdleGrid /\ IdleLogo /\ IdleCors

GetImageSettings ==
    /\ imgPc = "call"
    /\ \E m \in 0 .. 1 :
        imgSettings' = getImageSettings(DarkMatrix(imgArgs.side), imgArgs.size, m,
                                        {imgArgs.imageSettings})
    /\ imgPc' = "placed"
    /\ UNCHANGED <<imgArgs, imgDoc, pathVars, planVars, svgVars, getVars, styleVars, cubeVars,
                   excVars, gridVars, logoVars, corsVars>>

\* QRCodeSVG with these image settings, in path mode (standard) or styled
\* mode (custom with a style), in or out of the OG context
RenderWithLogo ==
    /\ imgPc = "placed"
    /\ \E m \in 0 .. 1, og \in BOOLEAN, t \in {"standard", "custom"} :
        LET p == [ value         |-> "https://dub.sh/x",
                   size          |-> {imgArgs.size},
                   level         |-> {},
                   bgColor       |-> {},
                   fgColor       |-> {},
                   margin        |-> {m},
                   isOGContext   |-> {og},
                   imageSettings |-> {imgArgs.imageSettings},
                   qrType        |-> {t},
                   qrStyle       |-> {[dotStyle |-> {}, cornerStyle |-> {},
                                       gradientDirection |-> {}, gradientStartColor |-> {},
                                       gradientEndColor |-> {}]} ]
        IN  imgDoc' = [ margin |-> m,
                        doc    |-> QRCodeSVG(p, [ok |-> TRUE,
                                                 modules |-> DarkMatrix(imgArgs.side)]) ]
    /\ imgPc' = "done"
    /\ UNCHANGED <<imgArgs, imgSettings, pathVars, planVars, svgVars, getVars, styleVars, cubeVars,
                   excVars, gridVars, logoVars, corsVars>>

NextImg == GetImageSettings \/ RenderWithLogo

SpecImg == InitImg /\ [][NextImg]_vars

\* the logo of the call excavates, and its settings have been computed
LogoExcavates == imgPc \in {"placed", "done"} /\ imgArgs.imageSettings.excavate
LogoBox       == The(imgSettings)
LogoRect      == The(LogoBox.excavation)

\* the cells of the matrix the logo's bounding box overlaps
LogoCells ==
    { c \in (0 .. imgArgs.side - 1) \X (0 .. imgArgs.side - 1) :
        /\ c[1] * LogoBox.den < LogoBox.x + LogoBox.w
        /\ (c[1] + 1) * LogoBox.den > LogoBox.x
        /\ c[2] * LogoBox.den < LogoBox.y + LogoBox.h
        /\ (c[2] + 1) * LogoBox.den > LogoBox.y }

\* the matrix cells a document draws as foreground, margin taken off
DrawnCells(doc, m) ==
    IF Len(Tagged(doc, "g")) > 0
    THEN LET els == Tagged(doc, "g")[1].elements
         IN  { <<PrimitiveCell(els[k])[1] - m, PrimitiveCell(els[k])[2] - m>> :
                 k \in 1 .. Len(els) }
    ELSE { <<c[1] - m, c[2] - m>> : c \in rasterize(Tagged(doc, "path")[2].d) }

\* C12: for an excavating logo no wider or taller than the symbol, the
\* excavation rectangle contains the logo's footprint on both axes
\* (rect.x <= x, rect.x + rect.w >= x + w, and the same for y and h), and
\* the rendered foreground, path or styled, draws no module in a cell the
\* logo's bounding box overlaps.
C12_ExcavationCoversLogo ==
    LogoExcavates =>
        /\ LogoRect.x * LogoBox.den <= LogoBox.x
        /\ (LogoRect.x + LogoRect.w) * LogoBox.den >= LogoBox.x + LogoBox.w
        /\ LogoRect.y * LogoBox.den <= LogoBox.y
        /\ (LogoRect.y + LogoRect.h) * LogoBox.den >= LogoBox.y + LogoBox.h
        /\ imgPc = "done" => DrawnCells(imgDoc.doc, imgDoc.margin) \cap LogoCells = {}

\* an off-grid logo over several cells of a symbol that still draws others
C12_Witness ==
    /\ LogoExcavates
    /\ imgPc = "done"
    /\ LogoBox.x % LogoBox.den # 0
    /\ (LogoBox.x + LogoBox.w) % LogoBox.den # 0
    /\ Cardinality(LogoCells) > 1
    /\ DrawnCells(imgDoc.doc, imgDoc.margin) # {}
    /\ Len(Tagged(imgDoc.doc, "g")) > 0

\* C20 as stated: the excavation rectangle over-covers the scaled logo by at
\* most one module per axis, rect.w - w <= 1 and rect.h - h <= 1.
C20_OverCoverAtMostOne ==
    LogoExcavates =>
        /\ LogoRect.w * LogoBox.den - LogoBox.w <= LogoBox.den
        /\ LogoRect.h * LogoBox.den - LogoBox.h <= LogoBox.den

\* C20, amended: the rectangle over-covers the logo by less than one module
\* on each side (left/top by the fraction the floor drops, right/bottom by
\* the round-up), so by less than two modules per axis.
C20_OverCoverBelowTwo ==
    LogoExcavates =>
        /\ LogoBox.x - LogoRect.x * LogoBox.den < LogoBox.den
        /\ (LogoRect.x + LogoRect.w) * LogoBox.den - (LogoBox.x + LogoBox.w) < LogoBox.den
        /\ LogoBox.y - LogoRect.y * LogoBox.den < LogoBox.den
        /\ (LogoRect.y + LogoRect.h) * LogoBox.den - (LogoBox.y + LogoBox.h) < LogoBox.den
        /\ LogoRect.w * LogoBox.den - LogoBox.w < 2 * LogoBox.den
        /\ LogoRect.h * LogoBox.den - LogoBox.h < 2 * LogoBox.den

\* a centred logo whose rectangle is more than one module wider than it
C20_Witness ==
    /\ LogoExcavates
    /\ imgArgs.imageSettings.x = {}
    /\ LogoRect.w * LogoBox.den - LogoBox.w > LogoBox.den

(***************************************************************************)
(* One dark module of generateStyledModules, for matrices up to the sides  *)
(* of real symbols (21, 25): which renderer draws the module at (x, y) of  *)
(* a matrix of side `size`.  The dot and corner styles are pairs whose     *)
(* primitives differ, so the renderer used shows in the result.            *)
(***************************************************************************)
MaxStyleSide == 25

InitStyle ==
    /\ styleArgs \in { a \in [ size : 1 .. MaxStyleSide, x : 0 .. MaxStyleSide - 1,
                               y : 0 .. MaxStyleSide - 1, margin : 0 .. 1,
                               dotStyle : {"circle", "diamond"},
                               cornerStyle : {"circle", "square"} ] :
                          a.x < a.size /\ a.y < a.size }
    /\ styleEl = Null
    /\ stylePc = "call"
    /\ IdlePath /\ IdlePlan /\ IdleSvg /\ IdleGet /\ IdleImg /\ IdleCube /\ IdleExc /\ IdleGrid /\ IdleLogo /\ IdleCors

StyleModule ==
    /\ stylePc = "call"
    /\ styleEl' = styledModule(styleArgs.x, styleArgs.y, styleArgs.size, styleArgs.margin,
                               styleArgs.dotStyle, styleArgs.cornerStyle)
    /\ stylePc' = "done"
    /\ UNCHANGED <<styleArgs, pathVars, planVars, svgVars, getVars, imgVars, cubeVars,
                   excVars, gridVars, logoVars, corsVars>>

NextStyle == StyleModule

SpecStyle == InitStyle /\ [][NextStyle]_vars

\* the module of the call was drawn by the corner renderer
DrawnAsCorner ==
    styleEl = renderCornerModule(styleArgs.x + styleArgs.margin, styleArgs.y + styleArgs.margin,
                                 styleArgs.cornerStyle, <<styleArgs.x, styleArgs.y>>)

\* (x, y) lies in the 7x7 block whose top-left cell is (bx, by)
InBlock7(x, y, bx, by) == x \in bx .. bx + 6 /\ y \in by .. by + 6

\* C13: for a matrix of side N >= 21 the modules at (0,0), (N-1,0) and
\* (0,N-1) are classified as finder modules; the module at (N div 2, N div 2)
\* is not, for N > 14; and a module is a finder module exactly when its
\* unmargined (x, y) lies in the top-left, top-right or bottom-left 7x7
\* block, whatever the margin and the styles.
C13_FinderBlocks ==
    stylePc = "done" =>
        LET N == styleArgs.size
            x == styleArgs.x
            y == styleArgs.y
        IN  /\ (N >= 21 /\ <<x, y>> \in {<<0, 0>>, <<N - 1, 0>>, <<0, N - 1>>}) => DrawnAsCorner
            /\ (N > 14 /\ x = N \div 2 /\ y = N \div 2) => ~DrawnAsCorner
            /\ DrawnAsCorner <=> \/ InBlock7(x, y, 0, 0)
                                 \/ InBlock7(x, y, N - 7, 0)
                                 \/ InBlock7(x, y, 0, N - 7)

\* the top-right corner module of a 21-module symbol drawn with a margin
C13_Witness ==
    /\ stylePc = "done"
    /\ styleArgs.size = 21
    /\ styleArgs.x = 20 /\ styleArgs.y = 0
    /\ styleArgs.margin = 1
    /\ DrawnAsCorner

\* the gradient fields of the request, with the defaults of a holographic render
ReqHolographic   == ReqType = "holographic" /\ props.p.qrStyle # {}
ReqDirection     == OrDefault(The(props.p.qrStyle).gradientDirection, "horizontal")
ReqStartColor    == OrDefault(The(props.p.qrStyle).gradientStartColor, "#8A2BE2")
ReqEndColor      == OrDefault(The(props.p.qrStyle).gradientEndColor, "#00CED1")

\* C14: a holographic render with a qrStyle holds exactly one gradient
\* definition: radial for the radial direction, otherwise linear from
\* (0%,0%) to (100%,0%) for horizontal, (0%,100%) for vertical and
\* (100%,100%) for diagonal; it always has exactly two stops, the start
\* colour at 0% and the end colour at 100%.
C14_OneGradientDef ==
    (Rendered /\ ReqHolographic) =>
        /\ Len(Tagged(svg, "defs")) = 1
        /\ LET def == Tagged(svg, "defs")[1]
           IN  /\ ReqDirection = "radial" => def.gradient = "radialGradient"
               /\ ReqDirection # "radial" =>
                    /\ def.gradient = "linearGradient"
                    /\ <<def.x1, def.y1>> = <<"0%", "0%">>
                    /\ <<def.x2, def.y2>> =
                         CASE ReqDirection = "horizontal" -> <<"100%", "0%">>
                           [] ReqDirection = "vertical"   -> <<"0%", "100%">>
                           [] ReqDirection = "diagonal"   -> <<"100%", "100%">>
               /\ Len(def.stops) = 2
               /\ def.stops[1] = [offset |-> "0%", stopColor |-> ReqStartColor]
               /\ def.stops[2] = [offset |-> "100%", stopColor |-> ReqEndColor]

\* a holographic render with a vertical gradient between two chosen colours
C14_Witness ==
    /\ Rendered
    /\ ReqHolographic
    /\ The(props.p.qrStyle).gradientDirection = {"vertical"}
    /\ The(props.p.qrStyle).gradientStartColor = {"#FF69B4"}
    /\ Len(Tagged(svg, "defs")) = 1
    /\ Tagged(svg, "g")[1].fill = <<"url", "qr-holo-gradient">>

\* the side of the rendered square: the matrix side plus the effective
\* margin (the requested one, capped at 1 for micro) on both sides
ReqSide ==
    Len(props.encoder.modules)
        + 2 * (IF ReqType = "micro" THEN Min(ReqMargin, 1) ELSE ReqMargin)

\* C15: every render has the viewBox "0 0 S S" and an S x S background with
\* S = matrix side + 2 x effective margin; a standard render with margin 2
\* is one path-based document with S = N + 4.
C15_ViewBoxAndBackground ==
    Rendered =>
        /\ svg.viewBox = <<0, 0, ReqSide, ReqSide>>
        /\ svg.children[Len(Tagged(svg, "defs")) + 1] =
              [tag |-> "path", fill |-> OrDefault(props.p.bgColor, DEFAULT_BGCOLOR),
               d |-> << [mx |-> 0, my |-> 0, h |-> ReqSide, v |-> ReqSide, hx |-> 0] >>]
        /\ (ReqType = "standard" /\ ReqMargin = 2) =>
              /\ svg.viewBox[3] = Len(props.encoder.modules) + 4
              /\ Len(Tagged(svg, "path")) = 2
              /\ Len(Tagged(svg, "g")) = 0
              /\ Len(Tagged(svg, "defs")) = 0

\* a standard render of the largest matrix with the default margin of 2
C15_Witness ==
    /\ Rendered
    /\ props.p.qrType = {"standard"}
    /\ props.p.margin = {}
    /\ Len(props.encoder.modules) = MaxSide
    /\ svg.viewBox = <<0, 0, MaxSide + 4, MaxSide + 4>>
    /\ Len(Tagged(svg, "path")) = 2

(***************************************************************************)
(* QRCodeCube3D.  getQRData is imported from "@/lib/qr"; what it answers   *)
(* (value, colours, level, image settings) is an input of the call, like   *)
(* the encoder's answer.                                                   *)
(***************************************************************************)
\* cubeSize = 120
defaultCubeSize == 120

\* mutant: the face takes the margin and the image settings of qrData, as
\* the flat QRCode component does
cubeFaceProps_likeQRCode(qrData, cubeSize) ==
    [ value |-> qrData.value, size |-> {cubeSize}, level |-> {qrData.level},
      bgColor |-> {qrData.bgColor}, fgColor |-> {qrData.fgColor},
      margin |-> {qrData.margin}, isOGContext |-> {},
      imageSettings |-> qrData.imageSettings, qrType |-> {}, qrStyle |-> {} ]

\* <QRCodeSVG value size={cubeSize} bgColor fgColor level margin={1} />
cubeFaceProps(qrData, cubeSize) ==
    [ value |-> qrData.value, size |-> {cubeSize}, level |-> {qrData.level},
      bgColor |-> {qrData.bgColor}, fgColor |-> {qrData.fgColor},
      margin |-> {1}, isOGContext |-> {},
      imageSettings |-> {}, qrType |-> {}, qrStyle |-> {} ]

\* the six faces of the cube in document order; the element faceQR is the
\* child of the first three, rendered with the same props and encoder answer
QRCodeCube3D(p, qrData, encoder) ==
    LET cubeSize == OrDefault(p.cubeSize, defaultCubeSize)
        half     == cubeSize \div 2
        faceQR   == QRCodeSVG(cubeFaceProps(qrData, cubeSize), encoder)
        shown(name, transform) ==
            [name |-> name, width |-> cubeSize, height |-> cubeSize,
             transform |-> transform, backgroundColor |-> {}, children |-> <<faceQR>>]
        blank(name, transform, colour) ==
            [name |-> name, width |-> cubeSize, height |-> cubeSize,
             transform |-> transform, backgroundColor |-> {colour}, children |-> <<>>]
    IN  IF faceQR.threw THEN [threw |-> TRUE]
        ELSE [threw |-> FALSE,
              transform |-> <<"rotateX(-25deg)", "rotateY(-35deg)">>,
              faces |-> << shown("Front",  <<"translateZ", half>>),
                           shown("Right",  <<"rotateY(90deg)", "translateZ", half>>),
                           shown("Top",    <<"rotateX(90deg)", "translateZ", half>>),
                           blank("Back",   <<"rotateY(180deg)", "translateZ", half>>, "#f5f5f5"),
                           blank("Left",   <<"rotateY(-90deg)", "translateZ", half>>, "#f0f0f0"),
                           blank("Bottom", <<"rotateX(-90deg)", "translateZ", half>>, "#e8e8e8") >>]

CubeProps ==
    [ url : {"https://dub.sh/x"}, fgColor : Opt({"#1A2B3C"}), hideLogo : Opt(BOOLEAN),
      logo : Opt({"logo.png"}), cubeSize : Opt({64}) ]

\* what getQRData may answer for the cube's call
QRDataAnswers ==
    [ value : {"https://dub.sh/x"}, bgColor : {"#ffffff"}, fgColor : {"#000000", "#1A2B3C"},
      level : {"L", "M", "Q", "H"}, margin : {1},
      imageSettings : Opt(ImageSettingsOf(64)) ]

InitCube ==
    /\ cubeProps \in [ p : CubeProps, qrData : QRDataAnswers, encoder : EncoderAnswers ]
    /\ cube = Null
    /\ cubePc = "call"
    /\ IdlePath /\ IdlePlan /\ IdleSvg /\ IdleGet /\ IdleImg /\ IdleStyle /\ IdleExc /\ IdleGrid /\ IdleLogo /\ IdleCors

RenderCube ==
    /\ cubePc = "call"
    /\ cube' = QRCodeCube3D(cubeProps.p, cubeProps.qrData, cubeProps.encoder)
    /\ cubePc' = "done"
    /\ UNCHANGED <<cubeProps, pathVars, planVars, svgVars, getVars, imgVars, styleVars,
                   excVars, gridVars, logoVars, corsVars>>

NextCube == RenderCube

SpecCube == InitCube /\ [][NextCube]_vars

\* the faces of the rendered cube that hold a child, and those that hold none
CubeRendered == cubePc = "done" /\ ~cube.threw
SymbolFaces  == SelectSeq(cube.faces, LAMBDA f : f.children # <<>>)
BlankFaces   == SelectSeq(cube.faces, LAMBDA f : f.children = <<>>)

\* a document is a plain path-mode symbol with the given margin and no logo
PlainSymbol(doc, side, m) ==
    /\ doc.viewBox = <<0, 0, side + 2 * m, side + 2 * m>>
    /\ Len(doc.children) = 2
    /\ Len(Tagged(doc, "path")) = 2
    /\ rasterize(doc.children[2].d) = darkCells(cubeProps.encoder.modules, m)

\* C17: the cube has exactly three faces with a symbol, each a standard
\* path-mode symbol with margin 1 and no logo whatever hideLogo and logo
\* are, and exactly three flat-coloured faces with no symbol.
C17_CubeFaces ==
    CubeRendered =>
        /\ Len(SymbolFaces) = 3
        /\ Len(BlankFaces) = 3
        /\ \A k \in 1 .. Len(SymbolFaces) :
              /\ Len(SymbolFaces[k].children) = 1
              /\ PlainSymbol(SymbolFaces[k].children[1], Len(cubeProps.encoder.modules), 1)
        /\ \A k \in 1 .. Len(BlankFaces) :
              BlankFaces[k].backgroundColor # {}

\* a cube asked to show a logo (hideLogo false, logo given, image settings
\* in qrData) over a matrix with dark modules
C17_Witness ==
    /\ CubeRendered
    /\ cubeProps.p.hideLogo = {FALSE}
    /\ cubeProps.p.logo # {}
    /\ cubeProps.qrData.imageSettings # {}
    /\ Len(cubeProps.encoder.modules) = MaxSide
    /\ Len(SymbolFaces) = 3

\* the request names a type that is not a styled one but carries a qrStyle
ReqStyleIgnored == ReqType \notin {"custom", "holographic"} /\ props.p.qrStyle # {}

\* C18: a qrStyle (dot style, corner style, gradient fields) given with a
\* qrType other than custom or holographic causes no failure: the render is
\* in path mode with the plain fgColor fill and is the document rendered
\* for the same props without qrStyle.
C18_StyleIgnoredForOtherTypes ==
    (svgPc = "done" /\ ReqStyleIgnored) =>
        /\ svg.threw <=> ~props.encoder.ok
        /\ svg = QRCodeSVG([props.p EXCEPT !.qrStyle = {}], props.encoder)
        /\ ~svg.threw =>
              /\ Len(Tagged(svg, "g")) = 0
              /\ Len(Tagged(svg, "defs")) = 0
              /\ Tagged(svg, "path")[2].fill =
                    <<"color", OrDefault(props.p.fgColor, DEFAULT_FGCOLOR)>>

\* a compact request with a full gradient style and a chosen foreground
C18_Witness ==
    /\ Rendered
    /\ ReqType = "compact"
    /\ props.p.qrStyle # {}
    /\ The(props.p.qrStyle).gradientDirection = {"radial"}
    /\ props.p.fgColor = {"#1A2B3C"}
    /\ Tagged(svg, "path")[2].fill = <<"color", "#1A2B3C">>
    /\ Tagged(svg, "path")[2].d # <<>>

\* C19: a call of GET ends in exactly one outcome, the image response, the
\* 403 plan-forbidden response or the error response of the catch: no call
\* returns two responses, a call has returned one exactly when it is
\* finished, an unfinished call always has a next step, and no image is
\* returned once an error was thrown or the plan check denied.
C19_ExactlyOneOutcome ==
    /\ Len(responses) <= 1
    /\ pc = "done" <=> Len(responses) = 1
    /\ pc # "done" => ENABLED Next
    /\ \A k \in 1 .. Len(responses) :
          \/ responses[k].via = "ImageResponse"
          \/ responses[k].via = "Response" /\ responses[k].status = 403
          \/ responses[k].via = "handleAndReturnErrorResponse"
    /\ (pc = "catch" \/ Called("handleAndReturnErrorResponse") \/ CheckDenied) =>
          ResponsesVia("ImageResponse") = <<>>

\* a call of an allowed non-standard type whose encoder throws: it ends in
\* the error response alone
C19_Witness ==
    /\ pc = "done"
    /\ Called("checkQRTypePlanAccess")
    /\ Len(responses) = 1
    /\ responses[1].via = "handleAndReturnErrorResponse"
    /\ responses[1].thrownBy = "encodeText"

(***************************************************************************)
(* excavateModules as a call, over every small matrix and every rectangle  *)
(* around it: inside, across an edge, or wholly outside the matrix.        *)
(***************************************************************************)
MaxExcSide == 2

Excavations ==
    [ x : -1 .. MaxExcSide, y : -1 .. MaxExcSide,
      w : 0 .. MaxExcSide + 1, h : 0 .. MaxExcSide + 1 ]

InitExc ==
    /\ excArgs \in [ modules : Matrices(MaxExcSide, MaxExcSide), excavation : Excavations ]
    /\ excOut = Null
    /\ excPc = "call"
    /\ IdlePath /\ IdlePlan /\ IdleSvg /\ IdleGet /\ IdleImg /\ IdleStyle /\ IdleCube
    /\ IdleGrid /\ IdleLogo /\ IdleCors

\* the call, and a second call on its result; modules.slice().map(...) builds
\* new arrays and assigns nothing in the argument, which stays as it was
ExcavateModules ==
    /\ excPc = "call"
    /\ LET once == excavateModules(excArgs.modules, excArgs.excavation)
       IN  excOut' = [ input |-> excArgs.modules,
                       once  |-> once,
                       twice |-> excavateModules(once, excArgs.excavation) ]
    /\ excPc' = "done"
    /\ UNCHANGED <<excArgs, pathVars, planVars, svgVars, getVars, imgVars, styleVars,
                   cubeVars, gridVars, logoVars, corsVars>>

NextExc == ExcavateModules

SpecExc == InitExc /\ [][NextExc]_vars

\* the 0-based cell (x, y) lies inside the rectangle
InRect(x, y, rect) ==
    /\ rect.x <= x /\ x < rect.x + rect.w
    /\ rect.y <= y /\ y < rect.y + rect.h

\* C21: for every matrix and every rectangle, also one partly or wholly
\* outside the matrix, excavateModules returns a matrix of the same
\* dimensions whose cells inside the rectangle are light and whose other
\* cells equal the input's; the input is unchanged; excavating the result
\* again changes nothing.
C21_ExcavateFrame ==
    excPc = "done" =>
        LET in  == excArgs.modules
            out == excOut.once
        IN  /\ Len(out) = Len(in)
            /\ \A r \in 1 .. Len(in) :
                  /\ Len(out[r]) = Len(in[r])
                  /\ \A c \in 1 .. Len(in[r]) :
                        out[r][c] = IF InRect(c - 1, r - 1, excArgs.excavation)
                                    THEN FALSE ELSE in[r][c]
            /\ excOut.input = in
            /\ excOut.twice = out

\* a rectangle that starts left of an all-dark matrix and ends inside it:
\* some cells are cleared, some are kept
C21_Witness ==
    /\ excPc = "done"
    /\ excArgs.excavation.x < 0
    /\ excArgs.excavation.h > 0
    /\ excArgs.modules = [r \in 1 .. MaxExcSide |-> [c \in 1 .. MaxExcSide |-> TRUE]]
    /\ excOut.once # excArgs.modules
    /\ \E r \in 1 .. MaxExcSide : \E c \in 1 .. MaxExcSide : excOut.once[r][c]

\* the maximal horizontal runs of dark cells of a matrix, as [y, start, len]
MaximalRuns(mods) ==
    UNION { { [y |-> r - 1, start |-> s - 1, len |-> e - s + 1] :
                <<s, e>> \in { se \in (1 .. Len(mods[r])) \X (1 .. Len(mods[r])) :
                                 /\ se[1] <= se[2]
                                 /\ \A c \in se[1] .. se[2] : mods[r][c]
                                 /\ (se[1] = 1 \/ ~mods[r][se[1] - 1])
                                 /\ (se[2] = Len(mods[r]) \/ ~mods[r][se[2] + 1]) } } :
            r \in 1 .. Len(mods) }

\* C22: generatePath emits exactly one operation per maximal horizontal run
\* of dark cells of a row: each has height 1, starts and closes at the run's
\* start column plus the margin and is as wide as the run, also for a run
\* that reaches the last column and for a lone dark cell in the last column.
C22_OneOpPerRun ==
    pathPc = "done" =>
        /\ Len(path) = Cardinality(MaximalRuns(modules))
        /\ { path[i] : i \in 1 .. Len(path) } =
              { [mx |-> run.start + margin, my |-> run.y + margin, h |-> run.len,
                 v |-> 1, hx |-> run.start + margin] : run \in MaximalRuns(modules) }

\* a row with a run closed by a light cell and a lone dark last cell, above a
\* row whose run reaches the last column after starting earlier
C22_Witness ==
    /\ pathPc = "done"
    /\ margin = 1
    /\ modules = << <<TRUE, TRUE, FALSE, TRUE>>, <<FALSE, TRUE, TRUE, TRUE>> >>
    /\ Len(path) = 3

(***************************************************************************)
(* generateStyledModules as a call, over square matrices large enough to   *)
(* hold modules outside the three finder blocks (side 8 and more).         *)
(***************************************************************************)
MaxGridSide == 9

QR_DOT_STYLE_VALUES    == {"square", "rounded", "circle", "diamond"}
QR_CORNER_STYLE_VALUES == {"square", "rounded", "circle"}

\* full, chequered both ways, sparse and empty matrices of every side
GridMatrices ==
    { [r \in 1 .. n |-> [c \in 1 .. n |->
          CASE k = 1 -> TRUE
            [] k = 2 -> (r + c) % 2 = 0
            [] k = 3 -> (r + c) % 2 = 1
            [] k = 4 -> (r * c) % 3 = 1
            [] OTHER -> FALSE]] : n \in 1 .. MaxGridSide, k \in 1 .. 5 }

InitGrid ==
    /\ gridArgs \in [ modules : GridMatrices, margin : 0 .. 1,
                      dotStyle : QR_DOT_STYLE_VALUES, cornerStyle : QR_CORNER_STYLE_VALUES ]
    /\ gridOut = Null
    /\ gridPc = "call"
    /\ IdlePath /\ IdlePlan /\ IdleSvg /\ IdleGet /\ IdleImg /\ IdleStyle /\ IdleCube
    /\ IdleExc /\ IdleLogo /\ IdleCors

GenerateStyledModules ==
    /\ gridPc = "call"
    /\ gridOut' = generateStyledModules(gridArgs.modules, gridArgs.margin,
                                        gridArgs.dotStyle, gridArgs.cornerStyle)
    /\ gridPc' = "done"
    /\ UNCHANGED <<gridArgs, pathVars, planVars, svgVars, getVars, imgVars, styleVars,
                   cubeVars, excVars, logoVars, corsVars>>

NextGrid == GenerateStyledModules

SpecGrid == InitGrid /\ [][NextGrid]_vars

\* the module (x, y) of a matrix of side n lies in one of the finder blocks
InFinderBlocks(x, y, n) ==
    \/ InBlock7(x, y, 0, 0) \/ InBlock7(x, y, n - 7, 0) \/ InBlock7(x, y, 0, n - 7)

\* the shape of a primitive: its element and its corner radius in hundredths
ShapeOf(e) ==
    CASE e.tag = "circle"  -> <<"circle", e.r>>
      [] e.tag = "rect"    -> <<"rect", e.rx>>
      [] e.tag = "polygon" -> <<"polygon", 0>>

\* the shapes the two style parameters stand for
CornerShape(style) ==
    CASE style = "circle"  -> <<"circle", 50>>
      [] style = "rounded" -> <<"rect", 25>>
      [] style = "square"  -> <<"rect", 0>>

DotShape(style) ==
    CASE style = "circle"  -> <<"circle", 45>>
      [] style = "rounded" -> <<"rect", 30>>
      [] style = "diamond" -> <<"polygon", 0>>
      [] style = "square"  -> <<"rect", 0>>

\* C23: generateStyledModules returns one primitive per dark module and none
\* for a light one (as many primitives as dark cells), in row-major order;
\* the shape of a finder module's primitive is given by cornerStyle alone,
\* that of any other dark module by dotStyle alone.
C23_OnePrimitivePerDarkModule ==
    gridPc = "done" =>
        LET n == Len(gridArgs.modules)
        IN  /\ Len(gridOut) = Cardinality(darkCells(gridArgs.modules, 0))
            /\ { gridOut[k].key : k \in 1 .. Len(gridOut) } = darkCells(gridArgs.modules, 0)
            /\ \A i, j \in 1 .. Len(gridOut) :
                  i < j => \/ gridOut[i].key[2] < gridOut[j].key[2]
                           \/ /\ gridOut[i].key[2] = gridOut[j].key[2]
                              /\ gridOut[i].key[1] < gridOut[j].key[1]
            /\ \A k \in 1 .. Len(gridOut) :
                  /\ PrimitiveCell(gridOut[k]) =
                        <<gridOut[k].key[1] + gridArgs.margin, gridOut[k].key[2] + gridArgs.margin>>
                  /\ ShapeOf(gridOut[k]) =
                        IF InFinderBlocks(gridOut[k].key[1], gridOut[k].key[2], n)
                        THEN CornerShape(gridArgs.cornerStyle)
                        ELSE DotShape(gridArgs.dotStyle)

\* a chequered matrix of the largest side, with circles in the finder blocks
\* and diamonds elsewhere
C23_Witness ==
    /\ gridPc = "done"
    /\ Len(gridArgs.modules) = MaxGridSide
    /\ gridArgs.dotStyle = "diamond" /\ gridArgs.cornerStyle = "circle"
    /\ \E k \in 1 .. Len(gridOut) : gridOut[k].tag = "polygon"
    /\ \E k \in 1 .. Len(gridOut) : gridOut[k].tag = "circle"
    /\ Len(gridOut) < MaxGridSide * MaxGridSide

\* the primitives of the call drawn by the dot renderer
DotPrimitives ==
    SelectSeq(gridOut, LAMBDA e : ~InFinderBlocks(e.key[1], e.key[2], Len(gridArgs.modules)))

\* the bounding box of a primitive, in hundredths of a module
BoxOf(e) ==
    CASE e.tag = "circle" ->
            [left |-> e.cx - e.r, right |-> e.cx + e.r, top |-> e.cy - e.r, bottom |-> e.cy + e.r]
      [] e.tag = "rect" ->
            [left |-> e.x, right |-> e.x + e.width, top |-> e.y, bottom |-> e.y + e.height]
      [] e.tag = "polygon" ->
            [left   |-> e.points[4][1], right  |-> e.points[2][1],
             top    |-> e.points[1][2], bottom |-> e.points[3][2]]

\* the primitive keeps the distance d to each of the four sides of its cell
InsetBy(e, d) ==
    LET cellX == 100 * (e.key[1] + gridArgs.margin)
        cellY == 100 * (e.key[2] + gridArgs.margin)
    IN  /\ BoxOf(e).left   = cellX + d
        /\ BoxOf(e).right  = cellX + 100 - d
        /\ BoxOf(e).top    = cellY + d
        /\ BoxOf(e).bottom = cellY + 100 - d

\* C24 as stated: every dark module outside the finder blocks is inset from
\* its cell by one fixed positive padding on all four sides, for each of
\* the dot styles square, rounded, circle and diamond.
C24_EveryDotInset ==
    gridPc = "done" =>
        \A k \in 1 .. Len(DotPrimitives) : \E d \in 1 .. 49 : InsetBy(DotPrimitives[k], d)

\* C24, amended: a rounded, circle or diamond dot is inset by 0.05 module on
\* all four sides of its cell; a square dot fills its cell, with no padding.
C24_InsetExceptSquare ==
    gridPc = "done" =>
        \A k \in 1 .. Len(DotPrimitives) :
            InsetBy(DotPrimitives[k], IF gridArgs.dotStyle = "square" THEN 0 ELSE 5)

\* a square dot outside the finder blocks, drawn over its whole cell
C24_Witness ==
    /\ gridPc = "done"
    /\ gridArgs.dotStyle = "square"
    /\ Len(DotPrimitives) > 0
    /\ InsetBy(DotPrimitives[1], 0)

\* the level the call encodes at: Q for a requested L or M when the overlay is
\* excavated in the OG context or the type is a styled one
ReqEffectiveLevel ==
    IF /\ ReqLevel \in {"L", "M"}
       /\ \/ ReqOG /\ ReqExcavates
          \/ ReqType \in {"custom", "holographic"}
    THEN "Q" ELSE ReqLevel

\* C25: when the encoder fails at the effective level, QRCodeSVG fails too:
\* it has made exactly one encode attempt, at the effective level and never
\* again at another one, and it returns no document.
C25_EncoderFailurePropagates ==
    (svgPc = "done" /\ ~props.encoder.ok) =>
        /\ svg.threw
        /\ svg.encodeCalls = << [value |-> props.p.value, level |-> ReqEffectiveLevel] >>
        /\ DOMAIN svg = {"threw", "encodeCalls"}

\* a failure at H, the top level, for a logo-bearing OG render
C25_Witness ==
    /\ svgPc = "done"
    /\ ~props.encoder.ok
    /\ svg.threw
    /\ ReqLevel = "H"
    /\ ReqOG /\ ReqExcavates
    /\ Len(svg.encodeCalls) = 1

(***************************************************************************)
(* getQRCodeLogo as a call: its arguments and the answers of its lookups.  *)
(***************************************************************************)
LogoCallArgs ==
    [ url : {"https://dub.sh/x"}, logo : Opt({"https://acme.com/logo.png"}),
      hideLogo : BOOLEAN, workspacePlan : WorkspacePlans \cup {Null} ]

InitLogo ==
    /\ logoArgs \in [ a : LogoCallArgs, link : LinkAnswers,
                      workspace : WorkspaceAnswers, domain : DomainAnswers ]
    /\ logoOut = Null
    /\ logoPc = "call"
    /\ IdlePath /\ IdlePlan /\ IdleSvg /\ IdleGet /\ IdleImg /\ IdleStyle /\ IdleCube
    /\ IdleExc /\ IdleGrid /\ IdleCors

GetQRCodeLogo ==
    /\ logoPc = "call"
    /\ logoOut' = getQRCodeLogo(logoArgs.a, logoArgs.link, logoArgs.workspace, logoArgs.domain)
    /\ logoPc' = "done"
    /\ UNCHANGED <<logoArgs, pathVars, planVars, svgVars, getVars, imgVars, styleVars,
                   cubeVars, excVars, gridVars, corsVars>>

NextLogo == GetQRCodeLogo

SpecLogo == InitLogo /\ [][NextLogo]_vars

\* the call returned; the URL is a known short link; the plan is a paid one
LogoReturned  == logoPc = "done" /\ ~logoOut.threw
LogoLinkKnown == logoArgs.link.kind = "link"
LogoPlanPaid  == logoArgs.a.workspacePlan \in {"pro", "business", "enterprise"}

\* C26: getQRCodeLogo returns the Dub logo whenever the URL is not a known
\* short link or the plan is free or missing, whatever hideLogo and logo
\* are; it returns null only when the link is known, the plan is paid and
\* hideLogo is set; for a known link with a paid plan and hideLogo unset a
\* supplied logo is returned as it is.
C26_LogoBranding ==
    LogoReturned =>
        /\ (~LogoLinkKnown \/ ~LogoPlanPaid) => logoOut.logo = {DUB_QR_LOGO}
        /\ logoOut.logo = {} <=> (LogoLinkKnown /\ LogoPlanPaid /\ logoArgs.a.hideLogo)
        /\ (LogoLinkKnown /\ LogoPlanPaid /\ ~logoArgs.a.hideLogo /\ logoArgs.a.logo # {}) =>
              logoOut.logo = logoArgs.a.logo

\* a free-plan call with hideLogo set and a logo supplied gets the Dub logo
C26_Witness ==
    /\ LogoReturned
    /\ LogoLinkKnown
    /\ logoArgs.a.workspacePlan = "free"
    /\ logoArgs.a.hideLogo
    /\ logoArgs.a.logo # {}
    /\ logoOut.logo = {DUB_QR_LOGO}

\* the types above the free tier
GatedTypes == {"compact", "custom", "holographic", "cube3d"}

\* the handler is past its plan lookup and found no plan: no short link, no
\* workspace, or a workspace without a plan
NoPlanFound ==
    /\ pc \in {"planCheck", "logo", "render", "done"}
    /\ Called("getShortLinkViaEdge")
    /\ workspacePlan = Null
    /\ \A k \in 1 .. Len(responses) :
          responses[k].via = "handleAndReturnErrorResponse" =>
              responses[k].thrownBy \notin {"getQRCodeQuerySchema.parse", "ratelimitOrThrow",
                                            "getShortLinkViaEdge", "getWorkspaceViaEdge"}

\* C27: a URL whose short-link lookup finds nothing, or whose workspace has
\* no plan, is treated as plan free: a request for compact, custom,
\* holographic or cube3d gets the 403 and goes no further, and only
\* standard and micro are rendered.
C27_NoPlanIsFree ==
    NoPlanFound =>
        /\ params.qrType \in GatedTypes =>
              /\ pc \in {"planCheck", "done"}
              /\ ~Called("QRCodeSVG")
              /\ pc = "done" => /\ Len(responses) = 1
                                /\ responses[1].via = "Response"
                                /\ responses[1].status = 403
        /\ (pc = "render" \/ Called("QRCodeSVG")) => params.qrType \in {"standard", "micro"}

\* a cube3d request for a URL that is no short link, answered 403
C27_Witness ==
    /\ NoPlanFound
    /\ pc = "done"
    /\ ~Called("getWorkspaceViaEdge")
    /\ params.qrType = "cube3d"
    /\ Len(responses) = 1
    /\ responses[1].status = 403

\* the document of the image response the handler returned
ImageReturned == ResponsesVia("ImageResponse") # <<>>
ReturnedDoc   == ResponsesVia("ImageResponse")[1].body

\* C28: whenever the endpoint composites a logo (getQRCodeLogo returned a
\* value) the symbol is not encoded at L or M: the overlay is passed with
\* excavate = true in the OG context, so a requested L or M becomes Q, for
\* every qrType.
C28_LogoNeverAtLowLevel ==
    (ImageReturned /\ qrCodeLogo # {}) =>
        /\ Len(Tagged(ReturnedDoc, "img")) = 1
        /\ Tagged(ReturnedDoc, "img")[1].src = The(qrCodeLogo)
        /\ Len(ReturnedDoc.encodeCalls) = 1
        /\ ReturnedDoc.encodeCalls[1].level \in {"Q", "H"}
        /\ params.level \in {"L", "M"} => ReturnedDoc.encodeCalls[1].level = "Q"

\* a standard request at the default level L with the Dub logo, encoded at Q
C28_Witness ==
    /\ ImageReturned
    /\ qrCodeLogo = {DUB_QR_LOGO}
    /\ params.qrType = "standard"
    /\ params.level = "L"
    /\ ReturnedDoc.encodeCalls[1].level = "Q"

\* the first call of each step of the handler, in the order of the claim
HandlerSteps ==
    << "getQRCodeQuerySchema.parse", "ratelimitOrThrow", "getShortLinkViaEdge",
       "checkQRTypePlanAccess", "getQRCodeLogo", "QRCodeSVG" >>

\* the position of the first call of fn in the log
FirstCall(fn) == CHOOSE k \in 1 .. Len(calls) : calls[k] = fn /\ \A j \in 1 .. k - 1 : calls[j] # fn

\* C29: the handler's steps run in the order parameter validation, rate
\* limiting, plan lookup, plan check, logo resolution, render; a request
\* whose parameters fail validation makes no rate-limit check, and one the
\* rate limiter rejects makes no lookup, no plan check and no render.
C29_HandlerOrder ==
    /\ \A a, b \in 1 .. Len(HandlerSteps) :
          (a < b /\ Called(HandlerSteps[a]) /\ Called(HandlerSteps[b])) =>
              FirstCall(HandlerSteps[a]) < FirstCall(HandlerSteps[b])
    /\ \A b \in {2, 3, 5, 6} :
          Called(HandlerSteps[b]) => Called(HandlerSteps[IF b = 5 THEN 3 ELSE b - 1])
    /\ Called("checkQRTypePlanAccess") => Called("getShortLinkViaEdge")
    /\ (pc \in {"catch", "done"} /\ ~params.ok) =>
          \A k \in 1 .. Len(calls) :
              calls[k] \in {"getQRCodeQuerySchema.parse", "handleAndReturnErrorResponse"}
    /\ (req.limited /\ Called("ratelimitOrThrow")) =>
          \A k \in 1 .. Len(calls) :
              calls[k] \in {"getQRCodeQuerySchema.parse", "ratelimitOrThrow",
                            "handleAndReturnErrorResponse"}

\* a request the rate limiter rejected, answered by the catch
C29_Witness ==
    /\ pc = "done"
    /\ req.limited
    /\ calls = << "getQRCodeQuerySchema.parse", "ratelimitOrThrow",
                  "handleAndReturnErrorResponse" >>

(***************************************************************************)
(* getRestrictedCorsHeaders.  The two environment variables are inputs:    *)
(* unset ({}), empty, or an origin.                                        *)
(***************************************************************************)
\* [NEXTAUTH_URL, "https://app.dub.co", "https://dub.co", NEXT_PUBLIC_APP_URL].filter(Boolean)
allowedOriginsOf(env) ==
    LET listed == << env.NEXTAUTH_URL, {"https://app.dub.co"}, {"https://dub.co"},
                     env.NEXT_PUBLIC_APP_URL >>
        kept   == SelectSeq(listed, LAMBDA o : o # {} /\ The(o) # "")
    IN  [k \in 1 .. Len(kept) |-> The(kept[k])]

\* mutant: any origin the request names is sent back
corsOrigin_reflected(requestOrigin, allowedOrigins) ==
    IF ~Falsy(requestOrigin)
    THEN requestOrigin
    ELSE IF Len(allowedOrigins) > 0 /\ allowedOrigins[1] # ""
         THEN allowedOrigins[1] ELSE "https://app.dub.co"

\* requestOrigin && allowedOrigins.includes(requestOrigin)
\*     ? requestOrigin : allowedOrigins[0] || "https://app.dub.co"
corsOrigin(requestOrigin, allowedOrigins) ==
    IF ~Falsy(requestOrigin) /\ \E k \in 1 .. Len(allowedOrigins) : allowedOrigins[k] = requestOrigin
    THEN requestOrigin
    ELSE IF Len(allowedOrigins) > 0 /\ allowedOrigins[1] # ""
         THEN allowedOrigins[1] ELSE "https://app.dub.co"

getRestrictedCorsHeaders(requestOrigin, env) ==
    [ AccessControlAllowOrigin      |-> corsOrigin(requestOrigin, allowedOriginsOf(env)),
      AccessControlAllowMethods     |-> "GET, POST, PUT, DELETE, OPTIONS",
      AccessControlAllowHeaders     |-> "Content-Type, Authorization, X-Request-Id",
      AccessControlAllowCredentials |-> "true",
      AccessControlMaxAge           |-> "86400",
      Vary                          |-> "Origin" ]

\* origins a request may name: none (undefined, null, empty), the literal
\* "null" of an opaque origin, listed ones and foreign ones
RequestOrigins ==
    { Undefined, Null, "", "null", "https://app.dub.co", "https://dub.co",
      "https://self.example", "https://preview.example", "https://evil.example",
      "https://app.dub.co.evil.example" }

CorsEnvs ==
    [ NEXTAUTH_URL        : Opt({"", "https://self.example"}),
      NEXT_PUBLIC_APP_URL : Opt({"", "https://preview.example", "https://self.example"}) ]

InitCors ==
    /\ corsArgs \in [ requestOrigin : RequestOrigins, env : CorsEnvs ]
    /\ corsOut = Null
    /\ corsPc = "call"
    /\ IdlePath /\ IdlePlan /\ IdleSvg /\ IdleGet /\ IdleImg /\ IdleStyle /\ IdleCube
    /\ IdleExc /\ IdleGrid /\ IdleLogo

GetRestrictedCorsHeaders ==
    /\ corsPc = "call"
    /\ corsOut' = getRestrictedCorsHeaders(corsArgs.requestOrigin, corsArgs.env)
    /\ corsPc' = "done"
    /\ UNCHANGED <<corsArgs, pathVars, planVars, svgVars, getVars, imgVars, styleVars,
                   cubeVars, excVars, gridVars, logoVars>>

NextCors == GetRestrictedCorsHeaders

SpecCors == InitCors /\ [][NextCors]_vars

\* the allowed-origin list of the call, as a set, and its first configured entry
AllowedSet ==
    {"https://app.dub.co", "https://dub.co"}
        \cup (corsArgs.env.NEXTAUTH_URL \ {""})
        \cup (corsArgs.env.NEXT_PUBLIC_APP_URL \ {""})
FirstAllowed ==
    IF corsArgs.env.NEXTAUTH_URL \ {""} # {}
    THEN The(corsArgs.env.NEXTAUTH_URL) ELSE "https://app.dub.co"

\* C30: Access-Control-Allow-Origin is never a request origin outside the
\* allowed list: it is the request origin exactly when that origin is in
\* the list, and otherwise the first configured allowed origin
\* (https://app.dub.co when none is configured before it), for every
\* request origin, null and undefined included.
C30_OriginOnlyFromAllowList ==
    corsPc = "done" =>
        /\ corsOut.AccessControlAllowOrigin \in AllowedSet
        /\ corsArgs.requestOrigin \in AllowedSet =>
              corsOut.AccessControlAllowOrigin = corsArgs.requestOrigin
        /\ corsArgs.requestOrigin \notin AllowedSet =>
              /\ corsOut.AccessControlAllowOrigin = FirstAllowed
              /\ corsOut.AccessControlAllowOrigin # corsArgs.requestOrigin

\* a foreign origin that embeds an allowed one as a prefix gets the
\* configured origin back, not itself
C30_Witness ==
    /\ corsPc = "done"
    /\ corsArgs.requestOrigin = "https://app.dub.co.evil.example"
    /\ corsArgs.env.NEXTAUTH_URL = {"https://self.example"}
    /\ corsOut.AccessControlAllowOrigin = "https://self.example"

====
